---- MODULE Spec2Model ----
(***************************************************************************)
(* Booking lifecycle and availability-conflict engine of amromeet-backend. *)
(* The store is the PostgreSQL database behind pool.query; every awaited   *)
(* query of a route handler is one atomic step, and the handlers of        *)
(* concurrent requests interleave between their awaits.  Awaited calls that *)
(* commute with every step of every other request (the calendar provider,  *)
(* the mail provider, the analytics upsert, reads of immutable columns)    *)
(* are fused with the neighbouring store statement of the same handler.    *)
(* Instants are minutes since Sunday 00:00 of a reference week; the server *)
(* clock and the database session are taken to share one time zone.        *)
(***************************************************************************)
EXTENDS Integers, Sequences, FiniteSets, TLC

NULL == "NULL"

(* ---- bounds ---- *)
MaxRequests == 3
NumStarts == 3
MaxFaults == 1

(* ---- time ---- *)
MinutesPerHour == 60
MinutesPerDay == 24 * MinutesPerHour
NoTime == 0 - 1
MondayTenAM == MinutesPerDay + 10 * MinutesPerHour
StartTimes == {MondayTenAM + 15 * i : i \in 0..(NumStarts - 1)}
Now0 == MinutesPerDay + 8 * MinutesPerHour + 30

DayNames == <<"Sunday", "Monday", "Tuesday", "Wednesday", "Thursday", "Friday", "Saturday">>
GetDay(t) == (t \div MinutesPerDay) % 7
DayOfWeek(t) == DayNames[GetDay(t) + 1]
TimeOfDay(t) == t % MinutesPerDay
AddMinutes(t, m) == t + m
Today(t) == t \div MinutesPerDay

(* ---- identities ---- *)
Procs == {"w1", "w2"}
POrder == [p \in Procs |-> IF p = "w1" THEN 1 ELSE 2]
Users == {"u1", "u2"}
Guests == {"alice"}
Reasons == {NULL, "changed plans"}
EventTypeIds == {"et1", "et2"}
MissingEventType == "et9"
DefaultDuration == 30

(* ---- pure helpers ---- *)

\* createGoogleMeetEvent: the calendar insert succeeds, or any failure is
\* caught inside the service and a mock link is returned.
CreateGoogleMeetEvent(ok) ==
    IF ok
    THEN [success |-> TRUE, eventId |-> "gcal-event", meetLink |-> "meet-real"]
    ELSE [success |-> FALSE, eventId |-> NULL, meetLink |-> "meet-mock"]

\* Mutant: the overlap test with closed bounds (<= and >=).
CreateConflictRows_Closed(bs, et, newEnd, newStart) ==
    {i \in DOMAIN bs :
        /\ bs[i].event_type_id = et
        /\ bs[i].status = "confirmed"
        /\ bs[i].scheduled_at <= newEnd
        /\ bs[i].end_time >= newStart}

\* Mutant: the conflict query without `status = 'confirmed'`.
CreateConflictRows_AnyStatus(bs, et, newEnd, newStart) ==
    {i \in DOMAIN bs :
        /\ bs[i].event_type_id = et
        /\ bs[i].scheduled_at < newEnd
        /\ bs[i].end_time > newStart}

\* SELECT id FROM bookings WHERE event_type_id = $1 AND status = 'confirmed'
\*   AND scheduled_at < $2 AND end_time > $3
CreateConflictRows(bs, et, newEnd, newStart) ==
    {i \in DOMAIN bs :
        /\ bs[i].event_type_id = et
        /\ bs[i].status = "confirmed"
        /\ bs[i].scheduled_at < newEnd
        /\ bs[i].end_time > newStart}

\* Mutant: the conflict query without `id != $2`.
RescheduleConflictRows_Self(bs, et, bookingId, newEnd, newStart) ==
    {i \in DOMAIN bs :
        /\ bs[i].event_type_id = et
        /\ bs[i].status = "confirmed"
        /\ bs[i].scheduled_at < newEnd
        /\ bs[i].end_time > newStart}

\* SELECT id FROM bookings WHERE event_type_id = $1 AND id != $2
\*   AND status = 'confirmed' AND scheduled_at < $3 AND end_time > $4
RescheduleConflictRows(bs, et, bookingId, newEnd, newStart) ==
    {i \in DOMAIN bs :
        /\ bs[i].event_type_id = et
        /\ bs[i].id # bookingId
        /\ bs[i].status = "confirmed"
        /\ bs[i].scheduled_at < newEnd
        /\ bs[i].end_time > newStart}

\* UPDATE availability_slots SET is_active = FALSE WHERE event_type_id = $1
\*   AND day_of_week = $2 AND start_time < $3 AND end_time > $4
ConsumeSlot(slots, et, day, endTime, startTime) ==
    [s \in DOMAIN slots |->
        IF /\ slots[s].event_type_id = et
           /\ slots[s].day_of_week = day
           /\ slots[s].start_time < endTime
           /\ slots[s].end_time > startTime
        THEN [slots[s] EXCEPT !.is_active = FALSE]
        ELSE slots[s]]

\* Mutant: the release matches the slot's end time instead of its start time.
ReleaseSlot_EndTime(slots, et, day, startTime) ==
    [s \in DOMAIN slots |->
        IF /\ slots[s].event_type_id = et
           /\ slots[s].day_of_week = day
           /\ slots[s].end_time = startTime
        THEN [slots[s] EXCEPT !.is_active = TRUE]
        ELSE slots[s]]

\* Mutant: the release reactivates every slot that contains the old start.
ReleaseSlot_Containing(slots, et, day, startTime) ==
    [s \in DOMAIN slots |->
        IF /\ slots[s].event_type_id = et
           /\ slots[s].day_of_week = day
           /\ slots[s].start_time <= startTime
           /\ slots[s].end_time > startTime
        THEN [slots[s] EXCEPT !.is_active = TRUE]
        ELSE slots[s]]

\* UPDATE availability_slots SET is_active = TRUE WHERE event_type_id = $1
\*   AND day_of_week = $2 AND start_time = $3
ReleaseSlot(slots, et, day, startTime) ==
    [s \in DOMAIN slots |->
        IF /\ slots[s].event_type_id = et
           /\ slots[s].day_of_week = day
           /\ slots[s].start_time = startTime
        THEN [slots[s] EXCEPT !.is_active = TRUE]
        ELSE slots[s]]

\* Mutant: on conflict the upsert sets booking_count to 1 instead of adding 1.
UpsertBookingCount_Overwrite(rows, user, et, date) ==
    IF \E r \in rows : r.user_id = user /\ r.event_type_id = et /\ r.date = date
    THEN {IF r.user_id = user /\ r.event_type_id = et /\ r.date = date
          THEN [r EXCEPT !.booking_count = 1]
          ELSE r : r \in rows}
    ELSE rows \cup {[user_id |-> user, event_type_id |-> et, date |-> date,
                     booking_count |-> 1, cancellation_count |-> 0]}

\* INSERT INTO analytics (..., booking_count, date) VALUES (..., 1, today)
\*   ON CONFLICT (user_id, event_type_id, date) DO UPDATE SET booking_count = booking_count + 1
UpsertBookingCount(rows, user, et, date) ==
    IF \E r \in rows : r.user_id = user /\ r.event_type_id = et /\ r.date = date
    THEN {IF r.user_id = user /\ r.event_type_id = et /\ r.date = date
          THEN [r EXCEPT !.booking_count = r.booking_count + 1]
          ELSE r : r \in rows}
    ELSE rows \cup {[user_id |-> user, event_type_id |-> et, date |-> date,
                     booking_count |-> 1, cancellation_count |-> 0]}

\* Mutant: a plain INSERT without ON CONFLICT, adding a second row for the key.
UpsertCancellationCount_Insert(rows, user, et, date) ==
    rows \cup {[user_id |-> user, event_type_id |-> et, date |-> date,
                booking_count |-> 0, cancellation_count |-> 1]}

\* INSERT INTO analytics (..., cancellation_count, date) VALUES (..., 1, today)
\*   ON CONFLICT ... DO UPDATE SET cancellation_count = COALESCE(cancellation_count, 0) + 1
UpsertCancellationCount(rows, user, et, date) ==
    IF \E r \in rows : r.user_id = user /\ r.event_type_id = et /\ r.date = date
    THEN {IF r.user_id = user /\ r.event_type_id = et /\ r.date = date
          THEN [r EXCEPT !.cancellation_count = r.cancellation_count + 1]
          ELSE r : r \in rows}
    ELSE rows \cup {[user_id |-> user, event_type_id |-> et, date |-> date,
                     booking_count |-> 0, cancellation_count |-> 1]}

(* ---- state ---- *)
VARIABLES
    users,                \* table users: id -> row
    event_types,          \* table event_types: id -> row
    availability_slots,   \* table availability_slots: id -> row
    bookings,             \* table bookings: sequence of rows, id = position
    analytics,            \* table analytics: set of counter rows
    meetings,             \* number of calendar events created at the provider
    timers,               \* reminder timers armed with setTimeout
    now,                  \* the clock (new Date(), CURRENT_TIMESTAMP)
    pc,                   \* position of each worker in its handler
    req,                  \* the request each worker is serving
    local,                \* the handler's local variables
    resp,                 \* HTTP status sent for the request (0: none yet)
    effects,              \* effects the current request has performed
    failed,               \* best-effort effects of the current request that failed
    nreq,                 \* requests accepted so far
    faults                \* failures the environment may still inject

vars == <<users, event_types, availability_slots, bookings, analytics, meetings, timers, now,
          pc, req, local, resp, effects, failed, nreq, faults>>

store == <<users, event_types, availability_slots, bookings, analytics>>

NoEventType == [id |-> NULL, user_id |-> NULL, duration_minutes |-> 0]
\* A text of a request body: a spelling of a UUID (canonical or in upper case), a
\* JSON web token with the key that signed it, any other text, or no text at all.
NoText == [form |-> "missing", userId |-> NULL, upper |-> FALSE, signedBy |-> NULL]
\* No token in the response.
NoToken == [form |-> "none", userId |-> NULL, email |-> NULL, signedBy |-> NULL,
            expiresIn |-> 0, iat |-> NoTime]
NoBooking == [id |-> 0, event_type_id |-> NULL, user_id |-> NULL, guest |-> NULL,
              scheduled_at |-> NoTime, duration_minutes |-> 0,
              google_meet_link |-> NULL, status |-> NULL]
NoRequest == [kind |-> "none", event_type_id |-> NULL, guest |-> NULL,
              scheduled_at |-> NoTime, bookingId |-> 0, userId |-> NULL, reason |-> NULL,
              duration_minutes |-> 0,
              day_of_week |-> NULL, start_time |-> <<>>, end_time |-> <<>>,
              status |-> NULL, startDate |-> NoTime, endDate |-> NoTime,
              limit |-> 0, offset |-> 0, slotId |-> NULL,
              refreshToken |-> NoText, password |-> FALSE]
EmptyLocal == [eventType |-> NoEventType, endTime |-> NoTime, meetLink |-> NULL,
               googleEventId |-> NULL, bookingId |-> 0, booking |-> NoBooking,
               rows |-> <<>>, token |-> NoToken, newRefreshToken |-> NoToken]

\* The event types the owners authored: et1 of u1 and et2 of u2, with the default
\* duration and not deleted; active2 is the is_active column of et2.
EventTypesWith(active2) ==
    [e \in EventTypeIds |->
        [id |-> e, user_id |-> IF e = "et1" THEN "u1" ELSE "u2",
         duration_minutes |-> DefaultDuration,
         is_active |-> IF e = "et2" THEN active2 ELSE TRUE,
         deleted_at |-> NoTime]]

\* The accounts of the owners, none of them deleted.
SignedUpUsers ==
    [u \in Users |-> [id |-> u, email |-> IF u = "u1" THEN "u1@example.com" ELSE "u2@example.com",
                      deleted_at |-> NoTime]]

\* The rest of the database after the owners authored their slots; idle workers.
InitRest ==
    /\ users = SignedUpUsers
    /\ availability_slots =
         [s \in {"s1", "s2", "s3"} |->
            [id |-> s,
             event_type_id |-> IF s = "s3" THEN "et2" ELSE "et1",
             day_of_week |-> "Monday",
             start_time |-> IF s = "s2" THEN 10 * MinutesPerHour + 30 ELSE 10 * MinutesPerHour,
             end_time |-> IF s = "s2" THEN 11 * MinutesPerHour ELSE 10 * MinutesPerHour + 30,
             is_active |-> TRUE]]
    /\ bookings = <<>>
    /\ analytics = {}
    /\ meetings = 0
    /\ timers = {}
    /\ now = Now0
    /\ pc = [p \in Procs |-> "idle"]
    /\ req = [p \in Procs |-> NoRequest]
    /\ local = [p \in Procs |-> EmptyLocal]
    /\ resp = [p \in Procs |-> 0]
    /\ effects = [p \in Procs |-> {}]
    /\ failed = [p \in Procs |-> {}]

\* The database with every event type active.
InitStore ==
    /\ event_types = EventTypesWith(TRUE)
    /\ InitRest

Init ==
    /\ InitStore
    /\ nreq = 0
    /\ faults = MaxFaults

(* ---- shared steps ---- *)

\* res.status(code): the handler ends.
Respond(p, code) ==
    /\ pc' = [pc EXCEPT ![p] = "done"]
    /\ resp' = [resp EXCEPT ![p] = code]

\* The handler goes on to its next await; nothing has been sent yet.
Goto(p, label) ==
    /\ pc' = [pc EXCEPT ![p] = label]
    /\ resp' = [resp EXCEPT ![p] = 0]

\* An awaited query outside any try block rejects: next(error), generic failure.
StoreFails(p) ==
    /\ faults >= 1
    /\ faults' = faults - 1
    /\ Respond(p, 500)
    /\ UNCHANGED <<store, meetings, timers, now, req, local, effects, failed, nreq>>

\* A new request reaches an idle worker; l holds the handler's first locals.
Accept(p, r, l) ==
    /\ pc[p] \in {"idle", "done"}
    /\ nreq < MaxRequests
    /\ nreq' = nreq + 1
    /\ req' = [req EXCEPT ![p] = r]
    /\ local' = [local EXCEPT ![p] = l]
    /\ effects' = [effects EXCEPT ![p] = {}]
    /\ failed' = [failed EXCEPT ![p] = {}]

\* The first awaited query of a handler rejects.
FirstQueryFails(p) ==
    /\ faults >= 1
    /\ faults' = faults - 1
    /\ Respond(p, 500)

\* Best-effort effects, each inside its own try/catch: oks[n] tells whether effect n
\* succeeds (a failure is logged and the handler goes on); sure are the effects of
\* this step that have happened for certain; extra counts uncaught failures.
Attempt(p, oks, sure, extra) ==
    LET bad == {n \in DOMAIN oks : ~oks[n]}
    IN /\ faults >= Cardinality(bad) + extra
       /\ faults' = faults - (Cardinality(bad) + extra)
       /\ effects' = [effects EXCEPT ![p] = @ \cup (DOMAIN oks \ bad) \cup sure]
       /\ failed' = [failed EXCEPT ![p] = @ \cup bad]

Only(name, ok) == [n \in {name} |-> ok]

(* ---- POST /bookings ---- *)

\* Mutant: the event type query without `deleted_at IS NULL`.
ActiveEventRows_Deleted(ets, et) ==
    {e \in DOMAIN ets : e = et /\ ets[e].is_active}

\* SELECT ... FROM event_types et JOIN users u WHERE et.id = $1
\*   AND et.is_active = TRUE AND et.deleted_at IS NULL
ActiveEventRows(ets, et) ==
    {e \in DOMAIN ets : e = et /\ ets[e].is_active /\ ets[e].deleted_at = NoTime}

\* The request bodies tried: et1 at every start, et2 at a start that overlaps each
\* of them, and one request each without scheduled_at and for an unknown event type.
CreateInputs ==
    ({"et1"} \X StartTimes)
        \cup {<<"et2", MondayTenAM + 15>>, <<"et1", NoTime>>, <<MissingEventType, MondayTenAM>>}

\* Validation, then the event type query and the computation of endTime, for a
\* request body out of inputs.
CreateStartWith(p, inputs) ==
    \E <<et, t>> \in inputs, g \in Guests :
        LET r == [NoRequest EXCEPT !.kind = "create", !.event_type_id = et,
                                   !.guest = g, !.scheduled_at = t]
            rows == ActiveEventRows(event_types, et)
        IN /\ \/ /\ t = NoTime
                 /\ Accept(p, r, EmptyLocal)
                 /\ Respond(p, 400)
                 /\ UNCHANGED faults
              \/ /\ t # NoTime
                 /\ Accept(p, r, EmptyLocal)
                 /\ FirstQueryFails(p)
              \/ /\ t # NoTime
                 /\ rows = {}
                 /\ Accept(p, r, EmptyLocal)
                 /\ Respond(p, 404)
                 /\ UNCHANGED faults
              \/ /\ t # NoTime
                 /\ rows # {}
                 /\ Accept(p, r,
                       [EmptyLocal EXCEPT
                          !.eventType = [id |-> et,
                                         user_id |-> event_types[et].user_id,
                                         duration_minutes |-> event_types[et].duration_minutes],
                          !.endTime = AddMinutes(t, event_types[et].duration_minutes)])
                 /\ Goto(p, "c_conflict")
                 /\ UNCHANGED faults
           /\ UNCHANGED <<store, meetings, timers, now>>

CreateStart(p) == CreateStartWith(p, CreateInputs)

\* Mutant: the meeting is provisioned before the conflict check.
CreateConflictCheck_MeetFirst(p) ==
    /\ pc[p] = "c_conflict"
    /\ \/ StoreFails(p)
       \/ /\ IF CreateConflictRows(bookings, req[p].event_type_id,
                                   local[p].endTime, req[p].scheduled_at) # {}
             THEN Respond(p, 409)
             ELSE Goto(p, "c_insert")
          /\ meetings' = meetings + 1
          /\ UNCHANGED <<store, timers, now, req, local, effects, failed, nreq, faults>>

CreateConflictCheck(p) ==
    /\ pc[p] = "c_conflict"
    /\ \/ StoreFails(p)
       \/ /\ IF CreateConflictRows(bookings, req[p].event_type_id,
                                   local[p].endTime, req[p].scheduled_at) # {}
             THEN Respond(p, 409)
             ELSE Goto(p, "c_insert")
          /\ UNCHANGED <<store, meetings, timers, now, req, local, effects, failed, nreq, faults>>

\* The row INSERT INTO bookings stores.
NewBooking(bookingId, r, l, meetLink, googleEventId) ==
    [id |-> bookingId,
     event_type_id |-> r.event_type_id,
     user_id |-> l.eventType.user_id,
     guest |-> r.guest,
     scheduled_at |-> r.scheduled_at,
     end_time |-> l.endTime,
     duration_minutes |-> l.eventType.duration_minutes,
     google_meet_link |-> meetLink,
     google_calendar_event_id |-> googleEventId,
     status |-> "confirmed",
     cancelled_at |-> NoTime,
     cancellation_reason |-> NULL,
     deleted_at |-> NULL]

\* Meeting provisioning, then the INSERT, then the analytics upsert.
CreateInsert(p) ==
    /\ pc[p] = "c_insert"
    /\ \E okMeet \in BOOLEAN :
        LET googleEvent == CreateGoogleMeetEvent(okMeet)
            bookingId == Len(bookings) + 1
        IN /\ meetings' = IF okMeet THEN meetings + 1 ELSE meetings
           /\ local' = [local EXCEPT ![p].meetLink = googleEvent.meetLink,
                                     ![p].googleEventId = googleEvent.eventId,
                                     ![p].bookingId = bookingId]
           /\ \/ /\ Attempt(p, Only("meeting", okMeet), {}, 1)
                 /\ Respond(p, 500)
                 /\ UNCHANGED <<bookings, analytics>>
              \/ \E okAnalytics \in BOOLEAN :
                    /\ Attempt(p, [n \in {"meeting", "analytics"} |->
                                     IF n = "meeting" THEN okMeet ELSE okAnalytics],
                               {"insert"}, 0)
                    /\ bookings' = Append(bookings,
                                          NewBooking(bookingId, req[p], local[p],
                                                     googleEvent.meetLink, googleEvent.eventId))
                    /\ analytics' = IF okAnalytics
                                    THEN UpsertBookingCount(analytics, local[p].eventType.user_id,
                                                            req[p].event_type_id, Today(now))
                                    ELSE analytics
                    /\ Goto(p, "c_slots")
    /\ UNCHANGED <<users, event_types, availability_slots, timers, now, req, nreq>>

ReminderOffsets == {24, 1}

MsPerMinute == 60 * 1000

\* The largest delay a timer takes, in milliseconds.
TIMEOUT_MAX == 2147483647

\* setTimeout(callback, after) with after = minutes * MsPerMinute: a delay below 1
\* or above TIMEOUT_MAX is replaced by 1 millisecond.
SetTimeoutDelay(minutes) ==
    IF minutes >= 1 /\ minutes <= TIMEOUT_MAX \div MsPerMinute
    THEN minutes * MsPerMinute
    ELSE 1

\* The whole minutes that have passed once ms milliseconds have.
MinutesCovering(ms) == (ms \div MsPerMinute) + (IF ms % MsPerMinute = 0 THEN 0 ELSE 1)

\* Mutant: a reminder whose fire time is the current instant is armed too (>=).
RemindersFor_NonStrict(bookingId, guest, scheduledAt, meetLink, clock) ==
    {[bookingId |-> bookingId, guest |-> guest, scheduledAt |-> scheduledAt,
      meetLink |-> meetLink, hoursUntilBooking |-> h,
      fireAt |-> scheduledAt - h * MinutesPerHour, armedAt |-> clock,
      delay |-> SetTimeoutDelay(scheduledAt - h * MinutesPerHour - clock),
      fired |-> FALSE] :
        h \in {h \in ReminderOffsets : scheduledAt - h * MinutesPerHour >= clock}}

\* The timers the reminder block arms: one per offset whose fire time is still ahead.
\* A timer keeps the arguments its callback closed over, the reminder time fireAt,
\* the instant it was armed at and the delay it was armed with; fired tells whether
\* the callback has run.
RemindersFor(bookingId, guest, scheduledAt, meetLink, clock) ==
    {[bookingId |-> bookingId, guest |-> guest, scheduledAt |-> scheduledAt,
      meetLink |-> meetLink, hoursUntilBooking |-> h,
      fireAt |-> scheduledAt - h * MinutesPerHour, armedAt |-> clock,
      delay |-> SetTimeoutDelay(scheduledAt - h * MinutesPerHour - clock),
      fired |-> FALSE] :
        h \in {h \in ReminderOffsets : scheduledAt - h * MinutesPerHour > clock}}

\* Mutant: a failed effect aborts the handler with a generic failure.
CreateSlots_Abort(p) ==
    /\ pc[p] = "c_slots"
    /\ \E oks \in [{"slots", "email_guest", "email_owner", "reminders"} -> BOOLEAN] :
        /\ Attempt(p, oks, {}, 0)
        /\ availability_slots' =
             IF oks["slots"]
             THEN ConsumeSlot(availability_slots, req[p].event_type_id,
                              DayOfWeek(req[p].scheduled_at),
                              TimeOfDay(local[p].endTime), TimeOfDay(req[p].scheduled_at))
             ELSE availability_slots
        /\ timers' = IF oks["reminders"]
                     THEN timers \cup RemindersFor(local[p].bookingId, req[p].guest,
                                                   req[p].scheduled_at, local[p].meetLink, now)
                     ELSE timers
        /\ IF \A n \in DOMAIN oks : oks[n] THEN Respond(p, 201) ELSE Respond(p, 500)
    /\ UNCHANGED <<users, event_types, bookings, analytics, meetings, now, req, local, nreq>>

\* The slot update, the two confirmation mails, the reminder timers, then 201.
CreateSlots(p) ==
    /\ pc[p] = "c_slots"
    /\ \E oks \in [{"slots", "email_guest", "email_owner", "reminders"} -> BOOLEAN] :
        /\ Attempt(p, oks, {}, 0)
        /\ availability_slots' =
             IF oks["slots"]
             THEN ConsumeSlot(availability_slots, req[p].event_type_id,
                              DayOfWeek(req[p].scheduled_at),
                              TimeOfDay(local[p].endTime), TimeOfDay(req[p].scheduled_at))
             ELSE availability_slots
        /\ timers' = IF oks["reminders"]
                     THEN timers \cup RemindersFor(local[p].bookingId, req[p].guest,
                                                   req[p].scheduled_at, local[p].meetLink, now)
                     ELSE timers
    /\ Respond(p, 201)
    /\ UNCHANGED <<users, event_types, bookings, analytics, meetings, now, req, local, nreq>>

(* ---- PUT /bookings/:bookingId/cancel ---- *)

\* Mutant: the cancel lookup without `user_id = $2`.
CancelLookupRows_AnyOwner(bs, bookingId, userId) ==
    {i \in DOMAIN bs : bs[i].id = bookingId /\ bs[i].deleted_at = NULL}

\* SELECT ... FROM bookings WHERE id = $1 AND user_id = $2 AND deleted_at IS NULL
CancelLookupRows(bs, bookingId, userId) ==
    {i \in DOMAIN bs :
        bs[i].id = bookingId /\ bs[i].user_id = userId /\ bs[i].deleted_at = NULL}

\* The columns the cancel handler selects into `booking`.
CancelSnapshot(b) ==
    [NoBooking EXCEPT !.id = b.id, !.event_type_id = b.event_type_id, !.user_id = b.user_id,
                      !.guest = b.guest, !.scheduled_at = b.scheduled_at, !.status = b.status]

\* SELECT id, name, duration_minutes, user_id FROM event_types WHERE id = $1
EventRow(ets, et) ==
    [id |-> et, user_id |-> ets[et].user_id, duration_minutes |-> ets[et].duration_minutes]

\* The requests tried: every stored booking by every user with every reason, and
\* one request for an unknown booking id.
CancelInputs(n) ==
    ((1..n) \X Users \X Reasons) \cup {<<0, "u1", NULL>>}

\* The booking lookup and the event type lookup.
CancelStart(p) ==
    \E <<b, u, rs>> \in CancelInputs(Len(bookings)) :
        LET r == [NoRequest EXCEPT !.kind = "cancel", !.bookingId = b,
                                   !.userId = u, !.reason = rs]
            rows == CancelLookupRows(bookings, b, u)
        IN /\ \/ /\ Accept(p, r, EmptyLocal)
                 /\ FirstQueryFails(p)
              \/ /\ rows = {}
                 /\ Accept(p, r, EmptyLocal)
                 /\ Respond(p, 404)
                 /\ UNCHANGED faults
              \/ /\ rows # {}
                 /\ Accept(p, r,
                       [EmptyLocal EXCEPT
                          !.booking = CancelSnapshot(bookings[b]),
                          !.eventType = EventRow(event_types, bookings[b].event_type_id)])
                 /\ Goto(p, "x_update")
                 /\ UNCHANGED faults
           /\ UNCHANGED <<store, meetings, timers, now>>

\* UPDATE bookings SET status = 'cancelled', cancelled_at = CURRENT_TIMESTAMP,
\*   cancellation_reason = $1 WHERE id = $2 AND user_id = $3
CancelRows(bs, reason, bookingId, userId, clock) ==
    [i \in DOMAIN bs |->
        IF bs[i].id = bookingId /\ bs[i].user_id = userId
        THEN [bs[i] EXCEPT !.status = "cancelled", !.cancelled_at = clock,
                           !.cancellation_reason = reason]
        ELSE bs[i]]

\* Mutant: the cancel handler clears the pending reminder timers of the booking.
CancelUpdate_ClearsTimers(p) ==
    /\ pc[p] = "x_update"
    /\ \/ StoreFails(p)
       \/ /\ bookings' = CancelRows(bookings, req[p].reason, req[p].bookingId,
                                    req[p].userId, now)
          /\ timers' = {t \in timers : t.bookingId # req[p].bookingId \/ t.fired}
          /\ effects' = [effects EXCEPT ![p] = @ \cup {"update"}]
          /\ Goto(p, "x_effects")
          /\ UNCHANGED <<users, event_types, availability_slots, analytics, meetings, now,
                         req, local, failed, nreq, faults>>

CancelUpdate(p) ==
    /\ pc[p] = "x_update"
    /\ \/ StoreFails(p)
       \/ /\ bookings' = CancelRows(bookings, req[p].reason, req[p].bookingId,
                                    req[p].userId, now)
          /\ effects' = [effects EXCEPT ![p] = @ \cup {"update"}]
          /\ Goto(p, "x_effects")
          /\ UNCHANGED <<users, event_types, availability_slots, analytics, meetings, timers, now,
                         req, local, failed, nreq, faults>>

\* The slot release, the analytics upsert, the two cancellation mails, then 200.
CancelEffects(p) ==
    /\ pc[p] = "x_effects"
    /\ \E oks \in [{"slots", "analytics", "email_guest", "email_owner"} -> BOOLEAN] :
        /\ Attempt(p, oks, {}, 0)
        /\ availability_slots' =
             IF oks["slots"]
             THEN ReleaseSlot(availability_slots, local[p].booking.event_type_id,
                              DayOfWeek(local[p].booking.scheduled_at),
                              TimeOfDay(local[p].booking.scheduled_at))
             ELSE availability_slots
        /\ analytics' =
             IF oks["analytics"]
             THEN UpsertCancellationCount(analytics, local[p].eventType.user_id,
                                          local[p].booking.event_type_id, Today(now))
             ELSE analytics
    /\ Respond(p, 200)
    /\ UNCHANGED <<users, event_types, bookings, meetings, timers, now, req, local, nreq>>

(* ---- PUT /bookings/:bookingId/reschedule ---- *)

\* Mutant: the lookup without `status = 'confirmed'`.
RescheduleLookupRows_AnyStatus(bs, bookingId, userId) ==
    {i \in DOMAIN bs : bs[i].id = bookingId /\ bs[i].user_id = userId}

\* SELECT ... FROM bookings WHERE id = $1 AND user_id = $2 AND status = 'confirmed'
RescheduleLookupRows(bs, bookingId, userId) ==
    {i \in DOMAIN bs :
        bs[i].id = bookingId /\ bs[i].user_id = userId /\ bs[i].status = "confirmed"}

\* The columns the reschedule handler selects into `oldBooking`.
RescheduleSnapshot(b) ==
    [NoBooking EXCEPT !.id = b.id, !.event_type_id = b.event_type_id, !.user_id = b.user_id,
                      !.guest = b.guest, !.scheduled_at = b.scheduled_at,
                      !.duration_minutes = b.duration_minutes,
                      !.google_meet_link = b.google_meet_link]

\* The requests tried: every stored booking by every user to every start, and one
\* request each without scheduled_at and for an unknown booking id.
RescheduleInputs(n) ==
    ((1..n) \X Users \X StartTimes)
        \cup {<<0, "u1", MondayTenAM>>, <<0, "u1", NoTime>>}

\* Mutant: newEndTime is computed from the event type's current duration.
RescheduleStart_EventDuration(p) ==
    \E <<b, u, t>> \in RescheduleInputs(Len(bookings)) :
        LET r == [NoRequest EXCEPT !.kind = "reschedule", !.bookingId = b,
                                   !.userId = u, !.scheduled_at = t]
            rows == RescheduleLookupRows(bookings, b, u)
        IN /\ \/ /\ t = NoTime
                 /\ Accept(p, r, EmptyLocal)
                 /\ Respond(p, 400)
                 /\ UNCHANGED faults
              \/ /\ t # NoTime
                 /\ Accept(p, r, EmptyLocal)
                 /\ FirstQueryFails(p)
              \/ /\ t # NoTime
                 /\ rows = {}
                 /\ Accept(p, r, EmptyLocal)
                 /\ Respond(p, 404)
                 /\ UNCHANGED faults
              \/ /\ t # NoTime
                 /\ rows # {}
                 /\ Accept(p, r,
                       [EmptyLocal EXCEPT
                          !.booking = RescheduleSnapshot(bookings[b]),
                          !.endTime =
                             AddMinutes(t, event_types[bookings[b].event_type_id]
                                               .duration_minutes)])
                 /\ Goto(p, "r_conflict")
                 /\ UNCHANGED faults
           /\ UNCHANGED <<store, meetings, timers, now>>

\* The scheduled_at check, the booking lookup and the computation of newEndTime.
RescheduleStart(p) ==
    \E <<b, u, t>> \in RescheduleInputs(Len(bookings)) :
        LET r == [NoRequest EXCEPT !.kind = "reschedule", !.bookingId = b,
                                   !.userId = u, !.scheduled_at = t]
            rows == RescheduleLookupRows(bookings, b, u)
        IN /\ \/ /\ t = NoTime
                 /\ Accept(p, r, EmptyLocal)
                 /\ Respond(p, 400)
                 /\ UNCHANGED faults
              \/ /\ t # NoTime
                 /\ Accept(p, r, EmptyLocal)
                 /\ FirstQueryFails(p)
              \/ /\ t # NoTime
                 /\ rows = {}
                 /\ Accept(p, r, EmptyLocal)
                 /\ Respond(p, 404)
                 /\ UNCHANGED faults
              \/ /\ t # NoTime
                 /\ rows # {}
                 /\ Accept(p, r,
                       [EmptyLocal EXCEPT
                          !.booking = RescheduleSnapshot(bookings[b]),
                          !.endTime = AddMinutes(t, bookings[b].duration_minutes)])
                 /\ Goto(p, "r_conflict")
                 /\ UNCHANGED faults
           /\ UNCHANGED <<store, meetings, timers, now>>

RescheduleConflictCheck(p) ==
    /\ pc[p] = "r_conflict"
    /\ \/ StoreFails(p)
       \/ /\ IF RescheduleConflictRows(bookings, local[p].booking.event_type_id,
                                       req[p].bookingId, local[p].endTime,
                                       req[p].scheduled_at) # {}
             THEN Respond(p, 409)
             ELSE Goto(p, "r_release")
          /\ UNCHANGED <<store, meetings, timers, now, req, local, effects, failed, nreq, faults>>

\* Re-release old time slot.
RescheduleRelease(p) ==
    /\ pc[p] = "r_release"
    /\ \E ok \in BOOLEAN :
        /\ Attempt(p, Only("release", ok), {}, 0)
        /\ availability_slots' =
             IF ok
             THEN ReleaseSlot(availability_slots, local[p].booking.event_type_id,
                              DayOfWeek(local[p].booking.scheduled_at),
                              TimeOfDay(local[p].booking.scheduled_at))
             ELSE availability_slots
    /\ Goto(p, "r_consume")
    /\ UNCHANGED <<users, event_types, bookings, analytics, meetings, timers, now, req, local, nreq>>

\* Book new time slot.
RescheduleConsume(p) ==
    /\ pc[p] = "r_consume"
    /\ \E ok \in BOOLEAN :
        /\ Attempt(p, Only("consume", ok), {}, 0)
        /\ availability_slots' =
             IF ok
             THEN ConsumeSlot(availability_slots, local[p].booking.event_type_id,
                              DayOfWeek(req[p].scheduled_at),
                              TimeOfDay(local[p].endTime), TimeOfDay(req[p].scheduled_at))
             ELSE availability_slots
    /\ Goto(p, "r_update")
    /\ UNCHANGED <<users, event_types, bookings, analytics, meetings, timers, now, req, local, nreq>>

\* Mutant: the UPDATE also clears the meeting link.
RescheduleRows_ClearsLink(bs, scheduledAt, newEndTime, bookingId) ==
    [i \in DOMAIN bs |->
        IF bs[i].id = bookingId
        THEN [bs[i] EXCEPT !.scheduled_at = scheduledAt, !.end_time = newEndTime,
                           !.google_meet_link = NULL]
        ELSE bs[i]]

\* Mutant: the UPDATE moves scheduled_at and leaves end_time.
RescheduleRows_KeepsEnd(bs, scheduledAt, newEndTime, bookingId) ==
    [i \in DOMAIN bs |->
        IF bs[i].id = bookingId
        THEN [bs[i] EXCEPT !.scheduled_at = scheduledAt]
        ELSE bs[i]]

\* UPDATE bookings SET scheduled_at = $1, end_time = $2 WHERE id = $3
RescheduleRows(bs, scheduledAt, newEndTime, bookingId) ==
    [i \in DOMAIN bs |->
        IF bs[i].id = bookingId
        THEN [bs[i] EXCEPT !.scheduled_at = scheduledAt, !.end_time = newEndTime]
        ELSE bs[i]]

\* The UPDATE, the event name query, the rescheduling mail, then 200.
RescheduleUpdate(p) ==
    /\ pc[p] = "r_update"
    /\ \/ StoreFails(p)
       \/ /\ bookings' = RescheduleRows(bookings, req[p].scheduled_at, local[p].endTime,
                                        req[p].bookingId)
          /\ \/ /\ Attempt(p, <<>>, {"update"}, 1)
                /\ Respond(p, 500)
             \/ /\ \E ok \in BOOLEAN : Attempt(p, Only("email_guest", ok), {"update"}, 0)
                /\ Respond(p, 200)
          /\ UNCHANGED <<users, event_types, availability_slots, analytics, meetings, timers, now,
                         req, local, nreq>>

\* A request goes to the first free worker (the workers are interchangeable).
Dispatch(p) == \A q \in Procs : pc[q] \in {"idle", "done"} => q = p \/ POrder[p] < POrder[q]

Next ==
    \E p \in Procs :
        \/ /\ Dispatch(p)
           /\ \/ CreateStart(p)
              \/ CancelStart(p)
              \/ RescheduleStart(p)
        \/ CreateConflictCheck(p)
        \/ CreateInsert(p)
        \/ CreateSlots(p)
        \/ CancelUpdate(p)
        \/ CancelEffects(p)
        \/ RescheduleConflictCheck(p)
        \/ RescheduleRelease(p)
        \/ RescheduleConsume(p)
        \/ RescheduleUpdate(p)

Spec == Init /\ [][Next]_vars

(* ---- a specification for the best-effort effects of POST /bookings ---- *)

CreateEffects == {"analytics", "slots", "email_guest", "email_owner", "reminders"}

\* Two create requests, with enough failures for the provider and every effect.
InitEffects ==
    /\ InitStore
    /\ nreq = MaxRequests - 2
    /\ faults = Cardinality(CreateEffects) + 1

NextEffects ==
    \E p \in Procs :
        \/ Dispatch(p) /\ CreateStart(p)
        \/ CreateConflictCheck(p)
        \/ CreateInsert(p)
        \/ CreateSlots(p)

SpecEffects == InitEffects /\ [][NextEffects]_vars

(* ---- PUT /events/:eventId and DELETE /events/:eventId ---- *)

NoDuration == 0
MinDuration == 15
MaxDuration == 480
SchemaDefaultDuration == 30

\* eventTypeSchema on duration_minutes: an integer of 15..480, 30 when left out.
ValidateDuration(d) ==
    IF d = NoDuration THEN [valid |-> TRUE, duration_minutes |-> SchemaDefaultDuration]
    ELSE IF d >= MinDuration /\ d <= MaxDuration THEN [valid |-> TRUE, duration_minutes |-> d]
    ELSE [valid |-> FALSE, duration_minutes |-> d]

\* The rows of event_types a statement with `WHERE id = .. AND user_id = ..` reaches;
\* live tells whether it also asks for `deleted_at IS NULL`.
OwnedEventRows(ets, et, user, live) ==
    {e \in DOMAIN ets :
        e = et /\ ets[e].user_id = user /\ (live => ets[e].deleted_at = NoTime)}

\* Mutant: the update also moves the end of the event type's bookings.
UpdateEventBookings_MovesEnd(bs, et, d) ==
    [i \in DOMAIN bs |->
        IF bs[i].event_type_id = et
        THEN [bs[i] EXCEPT !.end_time = AddMinutes(bs[i].scheduled_at, d)]
        ELSE bs[i]]

\* Mutant: the update also resizes the bookings of the event type.
UpdateEventBookings_Resize(bs, et, d) ==
    [i \in DOMAIN bs |->
        IF bs[i].event_type_id = et
        THEN [bs[i] EXCEPT !.duration_minutes = d, !.end_time = AddMinutes(bs[i].scheduled_at, d)]
        ELSE bs[i]]

\* The bookings after an update of event type et: the statement writes event_types only.
UpdateEventBookings(bs, et, d) == bs

\* The update requests tried: the owner of et1 with a longer duration, without a
\* duration and with one below the minimum, and another user.
UpdateEventInputs ==
    {<<"et1", "u1", 45>>, <<"et1", "u1", NoDuration>>, <<"et1", "u1", 10>>, <<"et1", "u2", 45>>}

\* Validation, then UPDATE event_types SET duration_minutes = COALESCE($3, duration_minutes)
\*   WHERE id = $9 AND user_id = $10 AND deleted_at IS NULL
UpdateEventType(p) ==
    \E <<et, u, d>> \in UpdateEventInputs :
        LET r == [NoRequest EXCEPT !.kind = "update_event", !.event_type_id = et,
                                   !.userId = u, !.duration_minutes = d]
            v == ValidateDuration(d)
            rows == OwnedEventRows(event_types, et, u, TRUE)
        IN /\ Accept(p, r, EmptyLocal)
           /\ \/ /\ ~v.valid
                 /\ Respond(p, 400)
                 /\ UNCHANGED <<users, event_types, bookings, faults>>
              \/ /\ v.valid
                 /\ FirstQueryFails(p)
                 /\ UNCHANGED <<users, event_types, bookings>>
              \/ /\ v.valid
                 /\ rows = {}
                 /\ Respond(p, 404)
                 /\ UNCHANGED <<users, event_types, bookings, faults>>
              \/ /\ v.valid
                 /\ rows # {}
                 /\ event_types' = [event_types EXCEPT ![et].duration_minutes = v.duration_minutes]
                 /\ bookings' = UpdateEventBookings(bookings, et, v.duration_minutes)
                 /\ Respond(p, 200)
                 /\ UNCHANGED faults
           /\ UNCHANGED <<users, availability_slots, analytics, meetings, timers, now>>

\* The delete requests tried: the owner of et1, another user, an unknown event type.
DeleteEventInputs == {<<"et1", "u1">>, <<"et1", "u2">>, <<MissingEventType, "u1">>}

\* UPDATE event_types SET deleted_at = CURRENT_TIMESTAMP WHERE id = $1 AND user_id = $2
DeleteEventType(p) ==
    \E <<et, u>> \in DeleteEventInputs :
        LET r == [NoRequest EXCEPT !.kind = "delete_event", !.event_type_id = et, !.userId = u]
            rows == OwnedEventRows(event_types, et, u, FALSE)
        IN /\ Accept(p, r, EmptyLocal)
           /\ \/ /\ FirstQueryFails(p)
                 /\ UNCHANGED event_types
              \/ /\ rows = {}
                 /\ Respond(p, 404)
                 /\ UNCHANGED <<users, event_types, faults>>
              \/ /\ rows # {}
                 /\ event_types' = [event_types EXCEPT ![et].deleted_at = now]
                 /\ Respond(p, 200)
                 /\ UNCHANGED faults
           /\ UNCHANGED <<users, availability_slots, bookings, analytics, meetings, timers, now>>

(* ---- a specification with the event type requests ---- *)

\* et2 is active or not; booking and event type requests follow, none of them failing.
InitEvents ==
    /\ \E active2 \in BOOLEAN : event_types = EventTypesWith(active2)
    /\ InitRest
    /\ nreq = 0
    /\ faults = 0

NextEvents ==
    \E p \in Procs :
        \/ /\ Dispatch(p)
           /\ \/ CreateStart(p)
              \/ RescheduleStart(p)
              \/ CancelStart(p)
              \/ UpdateEventType(p)
              \/ DeleteEventType(p)
        \/ CreateConflictCheck(p)
        \/ CreateInsert(p)
        \/ CreateSlots(p)
        \/ CancelUpdate(p)
        \/ CancelEffects(p)
        \/ RescheduleConflictCheck(p)
        \/ RescheduleRelease(p)
        \/ RescheduleConsume(p)
        \/ RescheduleUpdate(p)

SpecEvents == InitEvents /\ [][NextEvents]_vars

(* ---- POST /events/:eventId/availability ---- *)

\* availabilitySlotSchema, day_of_week: one of the seven names.
WeekDays == {"Monday", "Tuesday", "Wednesday", "Thursday", "Friday", "Saturday", "Sunday"}

\* A time of the request body is the sequence of the digit groups of its text:
\* <<10, 30>> stands for "10:30".  The schema asks for /^\d{2}:\d{2}$/.
MatchesHHMM(t) == Len(t) = 2 /\ t[1] \in 0..99 /\ t[2] \in 0..99

\* availabilitySlotSchema as a whole.
ValidateSlot(day, startText, endText) ==
    day \in WeekDays /\ MatchesHHMM(startText) /\ MatchesHHMM(endText)

\* The TIME column accepts the text when it names a time of day up to 24:00.
IsTime(t) == t[2] <= 59 /\ t[1] * MinutesPerHour + t[2] <= MinutesPerDay

\* The value the TIME column stores, in minutes since midnight.
ToTime(t) == t[1] * MinutesPerHour + t[2]

\* SELECT id FROM event_types WHERE id = $1 AND user_id = $2
SlotOwnerRows(ets, et, user) == {e \in DOMAIN ets : e = et /\ ets[e].user_id = user}

\* The ids uuidv4() hands out, in the order of the inserts.
SlotNames == <<"s1", "s2", "s3", "s4", "s5", "s6", "s7", "s8">>

\* The requests tried: a well-formed slot on three days, a slot that ends before it
\* starts, an empty slot, an unknown day, a malformed time, a time the column
\* rejects, and a user who does not own the event type.
AddSlotInputs ==
    {<<"et1", "u1", "Monday", <<11, 0>>, <<12, 0>> >>,
     <<"et1", "u1", "Tuesday", <<10, 0>>, <<11, 0>> >>,
     <<"et1", "u1", "Sunday", <<9, 0>>, <<10, 0>> >>,
     <<"et1", "u1", "Monday", <<11, 0>>, <<10, 0>> >>,
     <<"et1", "u1", "Monday", <<10, 0>>, <<10, 0>> >>,
     <<"et1", "u1", "Funday", <<10, 0>>, <<11, 0>> >>,
     <<"et1", "u1", "Monday", <<10>>, <<11, 0>> >>,
     <<"et1", "u1", "Monday", <<25, 0>>, <<11, 0>> >>,
     <<"et1", "u2", "Monday", <<10, 0>>, <<11, 0>> >>}

\* Validation, then the ownership query.
AddSlotStart(p) ==
    \E <<et, u, day, st, en>> \in AddSlotInputs :
        LET r == [NoRequest EXCEPT !.kind = "add_slot", !.event_type_id = et, !.userId = u,
                                   !.day_of_week = day, !.start_time = st, !.end_time = en]
        IN /\ Accept(p, r, EmptyLocal)
           /\ \/ /\ ~ValidateSlot(day, st, en)
                 /\ Respond(p, 400)
                 /\ UNCHANGED faults
              \/ /\ ValidateSlot(day, st, en)
                 /\ FirstQueryFails(p)
              \/ /\ ValidateSlot(day, st, en)
                 /\ SlotOwnerRows(event_types, et, u) = {}
                 /\ Respond(p, 404)
                 /\ UNCHANGED faults
              \/ /\ ValidateSlot(day, st, en)
                 /\ SlotOwnerRows(event_types, et, u) # {}
                 /\ Goto(p, "a_insert")
                 /\ UNCHANGED faults
           /\ UNCHANGED <<store, meetings, timers, now>>

\* INSERT INTO availability_slots succeeds when both texts are times of day; the
\* table has no CHECK constraint.
SlotInsertable(st, en) == IsTime(st) /\ IsTime(en)

\* INSERT INTO availability_slots (id, event_type_id, day_of_week, start_time, end_time)
AddSlotInsert(p) ==
    /\ pc[p] = "a_insert"
    /\ \/ StoreFails(p)
       \/ /\ ~SlotInsertable(req[p].start_time, req[p].end_time)
          /\ Respond(p, 500)
          /\ UNCHANGED <<store, meetings, timers, now, req, local, effects, failed, nreq, faults>>
       \/ /\ SlotInsertable(req[p].start_time, req[p].end_time)
          /\ LET slotId == SlotNames[Cardinality(DOMAIN availability_slots) + 1]
             IN availability_slots' =
                   [s \in DOMAIN availability_slots \cup {slotId} |->
                       IF s = slotId
                       THEN [id |-> slotId,
                             event_type_id |-> req[p].event_type_id,
                             day_of_week |-> req[p].day_of_week,
                             start_time |-> ToTime(req[p].start_time),
                             end_time |-> ToTime(req[p].end_time),
                             is_active |-> TRUE]
                       ELSE availability_slots[s]]
          /\ effects' = [effects EXCEPT ![p] = @ \cup {"insert"}]
          /\ Respond(p, 201)
          /\ UNCHANGED <<users, event_types, bookings, analytics, meetings, timers, now,
                         req, local, failed, nreq, faults>>

(* ---- GET /events/:eventId/availability ---- *)

\* Mutant: the days are ranked as getDay() numbers them, Sunday first.
DayRank_SundayFirst(day) ==
    CASE day = "Sunday" -> 0
      [] day = "Monday" -> 1
      [] day = "Tuesday" -> 2
      [] day = "Wednesday" -> 3
      [] day = "Thursday" -> 4
      [] day = "Friday" -> 5
      [] day = "Saturday" -> 6
      [] OTHER -> 8

\* CASE WHEN day_of_week = 'Monday' THEN 1 ... WHEN day_of_week = 'Sunday' THEN 7 END;
\* any other text gives NULL, which an ascending sort puts last.
DayRank(day) ==
    CASE day = "Monday" -> 1
      [] day = "Tuesday" -> 2
      [] day = "Wednesday" -> 3
      [] day = "Thursday" -> 4
      [] day = "Friday" -> 5
      [] day = "Saturday" -> 6
      [] day = "Sunday" -> 7
      [] OTHER -> 8

\* SELECT ... FROM availability_slots WHERE event_type_id = $1 AND is_active = TRUE
ActiveSlotRows(slots, et) ==
    {s \in DOMAIN slots : slots[s].event_type_id = et /\ slots[s].is_active}

\* ORDER BY CASE ... END, start_time: the orders in which the database may return
\* the rows; rows equal in both keys come in any order.
SlotOrders(slots, rows) ==
    {o \in [1..Cardinality(rows) -> rows] :
        /\ \A i, j \in DOMAIN o : i # j => o[i] # o[j]
        /\ \A i, j \in DOMAIN o :
              i < j => \/ DayRank(slots[o[i]].day_of_week) < DayRank(slots[o[j]].day_of_week)
                       \/ /\ DayRank(slots[o[i]].day_of_week) = DayRank(slots[o[j]].day_of_week)
                          /\ slots[o[i]].start_time <= slots[o[j]].start_time}

\* The fields of a slot the handler puts in the response.
SlotColumns(sl) ==
    [id |-> sl.id, dayOfWeek |-> sl.day_of_week, startTime |-> sl.start_time,
     endTime |-> sl.end_time, isActive |-> sl.is_active]

\* The requests tried: each event type and an unknown one.
GetSlotsInputs == EventTypeIds \cup {MissingEventType}

\* The query and the response.
GetSlots(p) ==
    \E et \in GetSlotsInputs :
        LET r == [NoRequest EXCEPT !.kind = "get_slots", !.event_type_id = et]
        IN /\ \/ /\ Accept(p, r, EmptyLocal)
                 /\ FirstQueryFails(p)
              \/ /\ \E o \in SlotOrders(availability_slots,
                                        ActiveSlotRows(availability_slots, et)) :
                       Accept(p, r, [EmptyLocal EXCEPT
                                        !.rows = [k \in DOMAIN o |->
                                                    SlotColumns(availability_slots[o[k]])]])
                 /\ Respond(p, 200)
                 /\ UNCHANGED faults
           /\ UNCHANGED <<store, meetings, timers, now>>

(* ---- DELETE /events/availability/:slotId ---- *)

\* The requests tried: an authored slot by the owner of its event type and by another
\* user, a slot added later, and an unknown slot.
DeleteSlotInputs == {<<"s1", "u1">>, <<"s1", "u2">>, <<"s4", "u1">>, <<"s9", "u1">>}

\* UPDATE availability_slots SET is_active = FALSE WHERE id = $1 RETURNING id
DeleteSlot(p) ==
    \E <<s, u>> \in DeleteSlotInputs :
        /\ Accept(p, [NoRequest EXCEPT !.kind = "delete_slot", !.userId = u, !.slotId = s],
                  EmptyLocal)
        /\ \/ /\ FirstQueryFails(p)
              /\ UNCHANGED availability_slots
           \/ /\ s \notin DOMAIN availability_slots
              /\ Respond(p, 404)
              /\ UNCHANGED <<availability_slots, faults>>
           \/ /\ s \in DOMAIN availability_slots
              /\ availability_slots' = [availability_slots EXCEPT ![s].is_active = FALSE]
              /\ Respond(p, 200)
              /\ UNCHANGED faults
        /\ UNCHANGED <<users, event_types, bookings, analytics, meetings, timers, now>>

(* ---- a specification with the slot requests ---- *)

InitSlots ==
    /\ InitStore
    /\ nreq = 0
    /\ faults = MaxFaults

NextSlots ==
    \E p \in Procs :
        \/ /\ Dispatch(p)
           /\ \/ AddSlotStart(p)
              \/ GetSlots(p)
              \/ DeleteSlot(p)
        \/ AddSlotInsert(p)

SpecSlots == InitSlots /\ [][NextSlots]_vars

(* ---- a specification for the reminder timers of POST /bookings ---- *)

\* The instants the clock takes: Sunday 09:30 and 10:00, Monday 08:30, 09:00 and 09:45,
\* so that the starts tried are more than 24 hours, exactly 24 hours, between 1 and
\* 24 hours, exactly 1 hour and less than 1 hour ahead.
ClockValues ==
    {MondayTenAM - MinutesPerDay - 30, MondayTenAM - MinutesPerDay, Now0,
     MondayTenAM - MinutesPerHour, MondayTenAM - 15}

\* Time passes between two steps.
Tick ==
    /\ \E t \in ClockValues : t > now /\ now' = t
    /\ UNCHANGED <<store, meetings, timers, pc, req, local, resp, effects, failed, nreq, faults>>

\* Create requests from Sunday 09:30 on, none of them failing.
InitReminders ==
    /\ users = SignedUpUsers
    /\ event_types = EventTypesWith(TRUE)
    /\ availability_slots = [s \in {"s1"} |->
                               [id |-> s, event_type_id |-> "et1", day_of_week |-> "Monday",
                                start_time |-> 10 * MinutesPerHour,
                                end_time |-> 10 * MinutesPerHour + 30, is_active |-> TRUE]]
    /\ bookings = <<>>
    /\ analytics = {}
    /\ meetings = 0
    /\ timers = {}
    /\ now = MondayTenAM - MinutesPerDay - 30
    /\ pc = [p \in Procs |-> "idle"]
    /\ req = [p \in Procs |-> NoRequest]
    /\ local = [p \in Procs |-> EmptyLocal]
    /\ resp = [p \in Procs |-> 0]
    /\ effects = [p \in Procs |-> {}]
    /\ failed = [p \in Procs |-> {}]
    /\ nreq = 0
    /\ faults = 0

NextReminders ==
    \/ Tick
    \/ \E p \in Procs :
          \/ Dispatch(p) /\ CreateStart(p)
          \/ CreateConflictCheck(p)
          \/ CreateInsert(p)
          \/ CreateSlots(p)

SpecReminders == InitReminders /\ [][NextReminders]_vars

(* ---- a specification in which the reminder timers fire ---- *)

\* The callback of a pending timer runs once its delay has elapsed: sendBookingReminder
\* is called with the arguments the timer closed over when it was armed.
FireTimer ==
    /\ \E t \in timers :
          /\ ~t.fired
          /\ now - t.armedAt >= MinutesCovering(t.delay)
          /\ timers' = (timers \ {t}) \cup {[t EXCEPT !.fired = TRUE]}
    /\ UNCHANGED <<store, meetings, now, pc, req, local, resp, effects, failed, nreq, faults>>

\* Monday 08:30 with the authored store; no request fails.
InitTimers ==
    /\ InitStore
    /\ nreq = 0
    /\ faults = 0

NextTimers ==
    \/ Tick
    \/ FireTimer
    \/ \E p \in Procs :
          \/ /\ Dispatch(p)
             /\ \/ CreateStart(p)
                \/ CancelStart(p)
                \/ RescheduleStart(p)
          \/ CreateConflictCheck(p)
          \/ CreateInsert(p)
          \/ CreateSlots(p)
          \/ CancelUpdate(p)
          \/ CancelEffects(p)
          \/ RescheduleConflictCheck(p)
          \/ RescheduleRelease(p)
          \/ RescheduleConsume(p)
          \/ RescheduleUpdate(p)

\* The process stays up: the clock advances and the event loop runs due callbacks.
SpecTimers == InitTimers /\ [][NextTimers]_vars /\ WF_vars(Tick) /\ WF_vars(FireTimer)

(* ---- GET /bookings ---- *)

\* `limit = 50, offset = 0` when the query string leaves them out.
DefaultLimit == 50

\* The rows the WHERE clause keeps: user_id = $1 AND deleted_at IS NULL, and one more
\* condition for each of status, eventTypeId, startDate and endDate that is given.
ListMatches(bs, userId, status, et, startDate, endDate) ==
    {i \in DOMAIN bs :
        /\ bs[i].user_id = userId
        /\ bs[i].deleted_at = NULL
        /\ status # NULL => bs[i].status = status
        /\ et # NULL => bs[i].event_type_id = et
        /\ startDate # NoTime => bs[i].scheduled_at >= startDate
        /\ endDate # NoTime => bs[i].scheduled_at <= endDate}

\* ORDER BY scheduled_at DESC: the orders in which the database may return the rows.
\* Rows with the same scheduled_at come in any order.
ListOrders(bs, rows) ==
    {o \in [1..Cardinality(rows) -> rows] :
        /\ \A i, j \in DOMAIN o : i # j => o[i] # o[j]
        /\ \A i, j \in DOMAIN o : i < j => bs[o[i]].scheduled_at >= bs[o[j]].scheduled_at}

\* LIMIT $n OFFSET $m
LimitOffset(o, limit, offset) ==
    IF offset >= Len(o) THEN <<>>
    ELSE SubSeq(o, offset + 1, IF offset + limit < Len(o) THEN offset + limit ELSE Len(o))

\* The fields of a row the handler puts in the response.
ListColumns(b) ==
    [id |-> b.id, eventTypeId |-> b.event_type_id, guest |-> b.guest,
     scheduledAt |-> b.scheduled_at, status |-> b.status, googleMeetLink |-> b.google_meet_link]

\* The requests tried: each owner, with and without each filter, over the first page
\* by default and over pages of one row.
ListInputs ==
    Users \X {NULL, "confirmed"} \X {NULL, "et1"}
          \X {<<NoTime, NoTime>>, <<MondayTenAM, MondayTenAM + 15>>}
          \X {<<DefaultLimit, 0>>, <<1, 0>>, <<1, 1>>}

\* The request arrives and the query is built from req.query.
ListStart(p) ==
    \E <<u, st, et, dates, page>> \in ListInputs :
        /\ Accept(p, [NoRequest EXCEPT !.kind = "list", !.userId = u, !.status = st,
                                      !.event_type_id = et,
                                      !.startDate = dates[1], !.endDate = dates[2],
                                      !.limit = page[1], !.offset = page[2]],
                  EmptyLocal)
        /\ Goto(p, "l_query")
        /\ UNCHANGED <<store, meetings, timers, now, faults>>

\* The query runs and its rows are sent.
ListQuery(p) ==
    /\ pc[p] = "l_query"
    /\ \/ StoreFails(p)
       \/ /\ \E o \in ListOrders(bookings,
                                 ListMatches(bookings, req[p].userId, req[p].status,
                                             req[p].event_type_id,
                                             req[p].startDate, req[p].endDate)) :
                local' = [local EXCEPT ![p].rows =
                            [k \in DOMAIN LimitOffset(o, req[p].limit, req[p].offset) |->
                                ListColumns(bookings[LimitOffset(o, req[p].limit,
                                                                 req[p].offset)[k]])]]
          /\ Respond(p, 200)
          /\ UNCHANGED <<store, meetings, timers, now, req, effects, failed, nreq, faults>>

(* ---- a specification with the list requests ---- *)

\* Alice's bookings after four create requests and one cancel request: a cancelled
\* and a confirmed booking of et1 at Monday 10:00, a booking of et2 at 10:15 and a
\* booking of et1 at 10:30.
ListedBookings ==
    LET row(i, et, t) ==
            NewBooking(i, [NoRequest EXCEPT !.kind = "create", !.event_type_id = et,
                                            !.guest = "alice", !.scheduled_at = t],
                       [EmptyLocal EXCEPT !.eventType = EventRow(EventTypesWith(TRUE), et),
                                          !.endTime = AddMinutes(t, DefaultDuration)],
                       CreateGoogleMeetEvent(TRUE).meetLink,
                       CreateGoogleMeetEvent(TRUE).eventId)
    IN CancelRows(<<row(1, "et1", MondayTenAM), row(2, "et1", MondayTenAM),
                    row(3, "et2", MondayTenAM + 15), row(4, "et1", MondayTenAM + 30)>>,
                  NULL, 1, "u1", Now0)

\* The store after the first n create requests of that history (the cancel request
\* follows the first of them) and a restart of the server: the slots the bookings
\* consumed are inactive, the counters count the requests, no timer is armed.
ListedStore(n) ==
    /\ users = SignedUpUsers
    /\ event_types = EventTypesWith(TRUE)
    /\ bookings = SubSeq(ListedBookings, 1, n)
    /\ availability_slots =
         [s \in {"s1", "s2", "s3"} |->
            [id |-> s,
             event_type_id |-> IF s = "s3" THEN "et2" ELSE "et1",
             day_of_week |-> "Monday",
             start_time |-> IF s = "s2" THEN 10 * MinutesPerHour + 30 ELSE 10 * MinutesPerHour,
             end_time |-> IF s = "s2" THEN 11 * MinutesPerHour ELSE 10 * MinutesPerHour + 30,
             is_active |-> IF s = "s1" THEN n < 2 ELSE IF s = "s3" THEN n < 3 ELSE n < 4]]
    /\ analytics =
         {[user_id |-> "u1", event_type_id |-> "et1", date |-> Today(Now0),
           booking_count |-> Cardinality({i \in 1..n : ListedBookings[i].event_type_id = "et1"}),
           cancellation_count |-> 1] : k \in {1} \cap (1..n)}
         \cup {[user_id |-> "u2", event_type_id |-> "et2", date |-> Today(Now0),
                booking_count |-> 1, cancellation_count |-> 0] : k \in {3} \cap (1..n)}
    /\ meetings = n
    /\ timers = {}
    /\ now = Now0

\* Some prefix of that history has happened; two list requests follow.
InitList ==
    /\ \E n \in 0..Len(ListedBookings) : ListedStore(n)
    /\ pc = [p \in Procs |-> "idle"]
    /\ req = [p \in Procs |-> NoRequest]
    /\ local = [p \in Procs |-> EmptyLocal]
    /\ resp = [p \in Procs |-> 0]
    /\ effects = [p \in Procs |-> {}]
    /\ failed = [p \in Procs |-> {}]
    /\ nreq = MaxRequests - 2
    /\ faults = MaxFaults

NextList ==
    \E p \in Procs :
        \/ Dispatch(p) /\ ListStart(p)
        \/ ListQuery(p)

SpecList == InitList /\ [][NextList]_vars

(* ---- POST /auth/refresh and DELETE /users/account ---- *)

JWT_SECRET == "JWT_SECRET"
JWT_EXPIRES_IN == 7
REFRESH_TOKEN_EXPIRES_IN == 30

\* jwt.sign({ userId, email }, JWT_SECRET, { expiresIn: JWT_EXPIRES_IN })
GenerateToken(userId, email, clock) ==
    [form |-> "jwt", userId |-> userId, email |-> email, signedBy |-> JWT_SECRET,
     expiresIn |-> JWT_EXPIRES_IN, iat |-> clock]

\* jwt.sign({ userId }, JWT_SECRET, { expiresIn: REFRESH_TOKEN_EXPIRES_IN })
GenerateRefreshToken(userId, clock) ==
    [form |-> "jwt", userId |-> userId, email |-> NULL, signedBy |-> JWT_SECRET,
     expiresIn |-> REFRESH_TOKEN_EXPIRES_IN, iat |-> clock]

\* The text of a token as a client sends it back.
TokenText(token) ==
    [form |-> "jwt", userId |-> token.userId, upper |-> FALSE, signedBy |-> token.signedBy]

\* The UUID spelled by a text, as the database reads a parameter compared with a
\* uuid column: any spelling of a UUID gives that UUID, any other text is an error.
UuidInput(t) ==
    IF t.form = "uuid" THEN [ok |-> TRUE, id |-> t.userId] ELSE [ok |-> FALSE, id |-> NULL]

\* Mutant: the handler verifies the token and looks up the user id of its payload.
RefreshSubject_Verified(t) ==
    IF t.form = "jwt" /\ t.signedBy = JWT_SECRET
    THEN [ok |-> TRUE, id |-> t.userId]
    ELSE [ok |-> FALSE, id |-> NULL]

\* The id the refresh handler looks up: the refreshToken field itself.
RefreshSubject(t) == UuidInput(t)

\* SELECT id, email FROM users WHERE id = $1 AND deleted_at IS NULL
LiveUserRows(us, id) == {u \in DOMAIN us : u = id /\ us[u].deleted_at = NoTime}

UnknownUser == "u9"

\* The refreshToken fields tried: none, the id of each user in both spellings, the
\* id of no user, a refresh token the server issued, one signed with another key,
\* and a text that is neither.
RefreshInputs ==
    {NoText}
        \cup {[form |-> "uuid", userId |-> u, upper |-> up, signedBy |-> NULL] :
                 u \in Users \cup {UnknownUser}, up \in BOOLEAN}
        \cup {TokenText(GenerateRefreshToken("u1", Now0)),
              [TokenText(GenerateRefreshToken("u1", Now0)) EXCEPT !.signedBy = "other key"],
              [form |-> "text", userId |-> NULL, upper |-> FALSE, signedBy |-> NULL]}

\* The whole handler: the field check, the user query, the two new tokens.
Refresh(p) ==
    \E t \in RefreshInputs :
        LET r == [NoRequest EXCEPT !.kind = "refresh", !.refreshToken = t]
            subject == RefreshSubject(t)
            rows == LiveUserRows(users, subject.id)
        IN /\ \/ /\ t = NoText
                 /\ Accept(p, r, EmptyLocal)
                 /\ Respond(p, 400)
                 /\ UNCHANGED faults
              \/ /\ t # NoText
                 /\ Accept(p, r, EmptyLocal)
                 /\ FirstQueryFails(p)
              \/ /\ t # NoText
                 /\ ~subject.ok
                 /\ Accept(p, r, EmptyLocal)
                 /\ Respond(p, 500)
                 /\ UNCHANGED faults
              \/ /\ t # NoText
                 /\ subject.ok
                 /\ rows = {}
                 /\ Accept(p, r, EmptyLocal)
                 /\ Respond(p, 401)
                 /\ UNCHANGED faults
              \/ /\ t # NoText
                 /\ subject.ok
                 /\ \E u \in rows :
                       Accept(p, r, [EmptyLocal EXCEPT
                                        !.token = GenerateToken(users[u].id, users[u].email, now),
                                        !.newRefreshToken = GenerateRefreshToken(users[u].id, now)])
                 /\ Respond(p, 200)
                 /\ UNCHANGED faults
           /\ UNCHANGED <<store, meetings, timers, now>>

\* The delete requests tried: each user, with and without a password in the body.
DeleteAccountInputs == Users \X BOOLEAN

\* The password check and SELECT password_hash FROM users WHERE id = $1
DeleteAccountStart(p) ==
    \E <<u, pw>> \in DeleteAccountInputs :
        LET r == [NoRequest EXCEPT !.kind = "delete_account", !.userId = u, !.password = pw]
        IN /\ Accept(p, r, EmptyLocal)
           /\ \/ /\ ~pw
                 /\ Respond(p, 400)
                 /\ UNCHANGED faults
              \/ /\ pw
                 /\ FirstQueryFails(p)
              \/ /\ pw
                 /\ u \notin DOMAIN users
                 /\ Respond(p, 404)
                 /\ UNCHANGED faults
              \/ /\ pw
                 /\ u \in DOMAIN users
                 /\ Goto(p, "d_update")
                 /\ UNCHANGED faults
           /\ UNCHANGED <<store, meetings, timers, now>>

\* UPDATE users SET deleted_at = CURRENT_TIMESTAMP WHERE id = $1
DeleteAccountUpdate(p) ==
    /\ pc[p] = "d_update"
    /\ \/ StoreFails(p)
       \/ /\ users' = [users EXCEPT ![req[p].userId].deleted_at = now]
          /\ effects' = [effects EXCEPT ![p] = @ \cup {"update"}]
          /\ Respond(p, 200)
          /\ UNCHANGED <<event_types, availability_slots, bookings, analytics, meetings, timers,
                         now, req, local, failed, nreq, faults>>

(* ---- a specification with the account requests ---- *)

InitAuth ==
    /\ InitStore
    /\ nreq = 0
    /\ faults = MaxFaults

NextAuth ==
    \E p \in Procs :
        \/ /\ Dispatch(p)
           /\ \/ Refresh(p)
              \/ DeleteAccountStart(p)
        \/ DeleteAccountUpdate(p)

SpecAuth == InitAuth /\ [][NextAuth]_vars

(* ---- a specification with two bookings to reschedule ---- *)

\* Alice's two bookings of et1, at Monday 10:00 and at Monday 12:00.
PairBookings ==
    LET row(i, t) ==
            NewBooking(i, [NoRequest EXCEPT !.kind = "create", !.event_type_id = "et1",
                                            !.guest = "alice", !.scheduled_at = t],
                       [EmptyLocal EXCEPT !.eventType = EventRow(EventTypesWith(TRUE), "et1"),
                                          !.endTime = AddMinutes(t, DefaultDuration)],
                       CreateGoogleMeetEvent(TRUE).meetLink,
                       CreateGoogleMeetEvent(TRUE).eventId)
    IN <<row(1, MondayTenAM), row(2, MondayTenAM + 2 * MinutesPerHour)>>

\* The store after the two create requests and a restart of the server: the first
\* booking consumed slot s1, et1 counts two bookings, no timer is armed.  Two
\* reschedule requests follow, none of them failing.
InitPair ==
    /\ users = SignedUpUsers
    /\ event_types = EventTypesWith(TRUE)
    /\ bookings = PairBookings
    /\ availability_slots =
         [s \in {"s1", "s2", "s3"} |->
            [id |-> s,
             event_type_id |-> IF s = "s3" THEN "et2" ELSE "et1",
             day_of_week |-> "Monday",
             start_time |-> IF s = "s2" THEN 10 * MinutesPerHour + 30 ELSE 10 * MinutesPerHour,
             end_time |-> IF s = "s2" THEN 11 * MinutesPerHour ELSE 10 * MinutesPerHour + 30,
             is_active |-> s # "s1"]]
    /\ analytics = {[user_id |-> "u1", event_type_id |-> "et1", date |-> Today(Now0),
                     booking_count |-> 2, cancellation_count |-> 0]}
    /\ meetings = 2
    /\ timers = {}
    /\ now = Now0
    /\ pc = [p \in Procs |-> "idle"]
    /\ req = [p \in Procs |-> NoRequest]
    /\ local = [p \in Procs |-> EmptyLocal]
    /\ resp = [p \in Procs |-> 0]
    /\ effects = [p \in Procs |-> {}]
    /\ failed = [p \in Procs |-> {}]
    /\ nreq = MaxRequests - 2
    /\ faults = 0

NextPair ==
    \E p \in Procs :
        \/ Dispatch(p) /\ RescheduleStart(p)
        \/ RescheduleConflictCheck(p)
        \/ RescheduleRelease(p)
        \/ RescheduleConsume(p)
        \/ RescheduleUpdate(p)

SpecPair == InitPair /\ [][NextPair]_vars

(* ---- a specification with the requests one after another ---- *)

\* No request is in progress.
Quiet == \A q \in Procs : pc[q] \in {"idle", "done"}

InitSerial ==
    /\ InitStore
    /\ nreq = 0
    /\ faults = MaxFaults

\* A request is taken only when the one before it has been answered.
NextSerial ==
    \E p \in Procs :
        \/ /\ Quiet
           /\ Dispatch(p)
           /\ \/ CreateStart(p)
              \/ CancelStart(p)
              \/ RescheduleStart(p)
              \/ UpdateEventType(p)
        \/ CreateConflictCheck(p)
        \/ CreateInsert(p)
        \/ CreateSlots(p)
        \/ CancelUpdate(p)
        \/ CancelEffects(p)
        \/ RescheduleConflictCheck(p)
        \/ RescheduleRelease(p)
        \/ RescheduleConsume(p)
        \/ RescheduleUpdate(p)

SpecSerial == InitSerial /\ [][NextSerial]_vars

(* ---- a specification with bookings late in the evening ---- *)

\* Monday 23:45: a booking of the default duration ends on Tuesday at 00:15.
LateStart == MinutesPerDay + 23 * MinutesPerHour + 45

\* The request bodies tried: et1 in the morning and late in the evening.
LateInputs == {<<"et1", MondayTenAM>>, <<"et1", LateStart>>, <<"et2", LateStart>>}

\* The owner of et1 has authored slots for Monday 10:00-10:30, Monday 23:00-23:59,
\* Tuesday 00:00-01:00 and Tuesday 23:00-23:59, the owner of et2 one for Monday
\* 23:00-23:59; create requests follow, one of which may fail.
InitLate ==
    /\ users = SignedUpUsers
    /\ event_types = EventTypesWith(TRUE)
    /\ availability_slots =
         [s \in {"s1", "s2", "s3", "s4", "s5"} |->
            [id |-> s,
             event_type_id |-> IF s = "s5" THEN "et2" ELSE "et1",
             day_of_week |-> IF s \in {"s3", "s4"} THEN "Tuesday" ELSE "Monday",
             start_time |-> IF s = "s1" THEN 10 * MinutesPerHour
                            ELSE IF s = "s3" THEN 0 ELSE 23 * MinutesPerHour,
             end_time |-> IF s = "s1" THEN 10 * MinutesPerHour + 30
                          ELSE IF s = "s3" THEN MinutesPerHour
                          ELSE 23 * MinutesPerHour + 59,
             is_active |-> TRUE]]
    /\ bookings = <<>>
    /\ analytics = {}
    /\ meetings = 0
    /\ timers = {}
    /\ now = Now0
    /\ pc = [p \in Procs |-> "idle"]
    /\ req = [p \in Procs |-> NoRequest]
    /\ local = [p \in Procs |-> EmptyLocal]
    /\ resp = [p \in Procs |-> 0]
    /\ effects = [p \in Procs |-> {}]
    /\ failed = [p \in Procs |-> {}]
    /\ nreq = 0
    /\ faults = MaxFaults

NextLate ==
    \E p \in Procs :
        \/ Dispatch(p) /\ CreateStartWith(p, LateInputs)
        \/ CreateConflictCheck(p)
        \/ CreateInsert(p)
        \/ CreateSlots(p)

SpecLate == InitLate /\ [][NextLate]_vars

(* ---- a specification with bookings weeks ahead ---- *)

\* Monday 10:00 five weeks later.
FarStart == MondayTenAM + 5 * 7 * MinutesPerDay

\* The start whose 1-hour reminder, armed on Monday 08:30, gets the largest delay a
\* timer takes in whole minutes.
EdgeStart == Now0 + (TIMEOUT_MAX \div MsPerMinute) + MinutesPerHour

\* The request bodies tried: et1 this Monday, at the edge and five weeks ahead.
FarInputs == {<<"et1", MondayTenAM>>, <<"et1", EdgeStart>>, <<"et1", FarStart>>}

NextFar ==
    \/ Tick
    \/ FireTimer
    \/ \E p \in Procs :
          \/ Dispatch(p) /\ CreateStartWith(p, FarInputs)
          \/ CreateConflictCheck(p)
          \/ CreateInsert(p)
          \/ CreateSlots(p)

\* Monday 08:30 with the authored store; no request fails.
SpecFar == InitTimers /\ [][NextFar]_vars

(* ---- a specification with bookings a week apart ---- *)

\* The request bodies tried: et1 at Monday 10:00 of this week and of the next.
WeekInputs == {<<"et1", MondayTenAM>>, <<"et1", MondayTenAM + 7 * MinutesPerDay>>}

\* The authored store; the requests come one after another and none fails.
InitWeeks ==
    /\ InitStore
    /\ nreq = 0
    /\ faults = 0

NextWeeks ==
    \E p \in Procs :
        \/ /\ Quiet
           /\ Dispatch(p)
           /\ \/ CreateStartWith(p, WeekInputs)
              \/ CancelStart(p)
              \/ RescheduleStart(p)
        \/ CreateConflictCheck(p)
        \/ CreateInsert(p)
        \/ CreateSlots(p)
        \/ CancelUpdate(p)
        \/ CancelEffects(p)
        \/ RescheduleConflictCheck(p)
        \/ RescheduleRelease(p)
        \/ RescheduleConsume(p)
        \/ RescheduleUpdate(p)

SpecWeeks == InitWeeks /\ [][NextWeeks]_vars

(* ---- a specification with a slot its owner has deleted ---- *)

\* The store after the owner of et1 has deleted slot s1 (the UPDATE of DeleteSlot):
\* no booking exists yet.  Create, cancel and reschedule requests follow, one after
\* another.
InitDeleted ==
    /\ event_types = EventTypesWith(TRUE)
    /\ users = SignedUpUsers
    /\ availability_slots =
         [s \in {"s1", "s2", "s3"} |->
            [id |-> s,
             event_type_id |-> IF s = "s3" THEN "et2" ELSE "et1",
             day_of_week |-> "Monday",
             start_time |-> IF s = "s2" THEN 10 * MinutesPerHour + 30 ELSE 10 * MinutesPerHour,
             end_time |-> IF s = "s2" THEN 11 * MinutesPerHour ELSE 10 * MinutesPerHour + 30,
             is_active |-> s # "s1"]]
    /\ bookings = <<>>
    /\ analytics = {}
    /\ meetings = 0
    /\ timers = {}
    /\ now = Now0
    /\ pc = [p \in Procs |-> "idle"]
    /\ req = [p \in Procs |-> NoRequest]
    /\ local = [p \in Procs |-> EmptyLocal]
    /\ resp = [p \in Procs |-> 0]
    /\ effects = [p \in Procs |-> {}]
    /\ failed = [p \in Procs |-> {}]
    /\ nreq = 0
    /\ faults = MaxFaults

NextDeleted ==
    \E p \in Procs :
        \/ /\ Quiet
           /\ Dispatch(p)
           /\ \/ CreateStart(p)
              \/ CancelStart(p)
              \/ RescheduleStart(p)
        \/ CreateConflictCheck(p)
        \/ CreateInsert(p)
        \/ CreateSlots(p)
        \/ CancelUpdate(p)
        \/ CancelEffects(p)
        \/ RescheduleConflictCheck(p)
        \/ RescheduleRelease(p)
        \/ RescheduleConsume(p)
        \/ RescheduleUpdate(p)

SpecDeleted == InitDeleted /\ [][NextDeleted]_vars

(* ---- properties ---- *)

Confirmed(b) == b.status = "confirmed"

\* Half-open interval overlap of [a, b) and [c, d).
Overlap(a, b, c, d) == a < d /\ c < b

\* The worker that takes the next request.
Starts(p) == Dispatch(p) /\ pc[p] \in {"idle", "done"} /\ nreq' = nreq + 1

\* C1: no two distinct confirmed bookings of the same event type overlap
\* (half-open), in every reachable state under any interleaving.
C1_NoOverlap ==
    \A i, j \in DOMAIN bookings :
        (/\ i # j
         /\ bookings[i].event_type_id = bookings[j].event_type_id
         /\ Confirmed(bookings[i]) /\ Confirmed(bookings[j]))
        => ~Overlap(bookings[i].scheduled_at, bookings[i].end_time,
                    bookings[j].scheduled_at, bookings[j].end_time)

\* C2: of two concurrent create requests for the identical interval on the same
\* event type, with no booking stored beforehand, exactly one gets 201 and the
\* other gets 409 (store failures aside).
C2_ExactlyOneWins ==
    \A p, q \in Procs :
        (/\ p # q
         /\ nreq = 2
         /\ pc[p] = "done" /\ pc[q] = "done"
         /\ req[p].kind = "create" /\ req[q].kind = "create"
         /\ req[p].event_type_id = req[q].event_type_id
         /\ req[p].scheduled_at = req[q].scheduled_at
         /\ resp[p] \notin {400, 404, 500} /\ resp[q] \notin {400, 404, 500})
        => \/ resp[p] = 201 /\ resp[q] = 409
           \/ resp[p] = 409 /\ resp[q] = 201

\* C3: a cancel request that finds the booking already cancelled ends with a
\* not-found or conflict error (a store failure aside) and leaves the booking's
\* status, cancelled_at and cancellation_reason as they were.
C3_CancelCancelledFails ==
    [][\A p \in Procs :
          (pc[p] = "x_update" /\ pc'[p] # "x_update" /\ local[p].booking.status = "cancelled")
          => /\ resp'[p] \in {404, 409, 500}
             /\ bookings' = bookings]_vars

\* C4: the conflict check of a create request answers 409 exactly when some
\* confirmed booking of the event type overlaps [start, start + duration) under the
\* half-open test, and otherwise lets the request go on to the insert.
C4_HalfOpenCheck ==
    [][\A p \in Procs :
          (pc[p] = "c_conflict" /\ pc'[p] # "c_conflict" /\ resp'[p] # 500)
          => LET s == req[p].scheduled_at
                 e == s + event_types[req[p].event_type_id].duration_minutes
                 hit == \E i \in DOMAIN bookings :
                            /\ bookings[i].event_type_id = req[p].event_type_id
                            /\ Confirmed(bookings[i])
                            /\ Overlap(bookings[i].scheduled_at, bookings[i].end_time, s, e)
             IN /\ hit => (pc'[p] = "done" /\ resp'[p] = 409)
                /\ ~hit => (pc'[p] = "c_insert" /\ resp'[p] = 0)]_vars

\* C4 witness: a request starting exactly at the end of an earlier confirmed
\* booking of the same event type has been accepted with a confirmed booking.
C4_Witness ==
    \E p \in Procs, i \in DOMAIN bookings :
        /\ pc[p] = "done" /\ req[p].kind = "create" /\ resp[p] = 201
        /\ i < local[p].bookingId
        /\ bookings[i].event_type_id = req[p].event_type_id
        /\ Confirmed(bookings[i])
        /\ bookings[i].end_time = req[p].scheduled_at
        /\ Confirmed(bookings[local[p].bookingId])
        /\ bookings[local[p].bookingId].scheduled_at = req[p].scheduled_at

\* C5: a create request answered 409 has performed no write and no side effect:
\* its handler attempted nothing before the check, and the rejecting step leaves
\* bookings, slots, counters, meetings and timers as they were.
C5_ConflictNoWrites ==
    [][\A p \in Procs :
          (pc[p] = "c_conflict" /\ resp'[p] = 409)
          => /\ effects[p] = {} /\ failed[p] = {}
             /\ effects'[p] = {} /\ failed'[p] = {}
             /\ UNCHANGED <<users, event_types, availability_slots, bookings, analytics,
                            meetings, timers>>]_vars

\* C5 witness: a create request has been rejected with 409.
C5_Witness ==
    \E p \in Procs : pc[p] = "done" /\ req[p].kind = "create" /\ resp[p] = 409

\* C6: when meeting provisioning fails during a create request, the booking is
\* stored confirmed with a null meeting link and a null external meeting id, and
\* the caller gets 201.
C6_NullLinkOnFailure ==
    \A p \in Procs :
        (/\ req[p].kind = "create"
         /\ "meeting" \in failed[p]
         /\ "insert" \in effects[p])
        => /\ bookings[local[p].bookingId].google_meet_link = NULL
           /\ bookings[local[p].bookingId].google_calendar_event_id = NULL
           /\ pc[p] = "done" => resp[p] = 201

\* C7: once a create request has inserted its row, the row stays stored whatever
\* subset of the downstream effects fails, every one of the five effects is
\* attempted, the caller gets 201, and no downstream step touches the bookings.
C7_EffectsIsolated ==
    /\ [](\A p \in Procs :
            (req[p].kind = "create" /\ "insert" \in effects[p])
            => /\ local[p].bookingId \in DOMAIN bookings
               /\ bookings[local[p].bookingId].id = local[p].bookingId
               /\ bookings[local[p].bookingId].status = "confirmed"
               /\ pc[p] \in {"c_slots", "done"}
               /\ "analytics" \in effects[p] \cup failed[p]
               /\ pc[p] = "done"
                    => /\ resp[p] = 201
                       /\ CreateEffects \subseteq effects[p] \cup failed[p])
    /\ [][\A p \in Procs :
            (pc[p] = "c_slots" /\ pc'[p] # "c_slots") => bookings' = bookings]_vars

\* C7 witness: a create request has answered 201 although two of its downstream
\* effects failed.
C7_Witness ==
    \E p \in Procs :
        /\ pc[p] = "done" /\ req[p].kind = "create" /\ resp[p] = 201
        /\ Cardinality(failed[p] \cap CreateEffects) >= 2
        /\ Confirmed(bookings[local[p].bookingId])

\* C8: a successful reschedule changes scheduled_at and end_time of its booking
\* and nothing else: every other column of that row and every other row are the
\* same before and after, and no other step of the handler writes a booking.
C8_RescheduleFrame ==
    [][\A p \in Procs :
          /\ (pc[p] = "r_update" /\ resp'[p] = 200)
             => /\ DOMAIN bookings' = DOMAIN bookings
                /\ \A i \in DOMAIN bookings :
                      bookings'[i] =
                         IF i = req[p].bookingId
                         THEN [bookings[i] EXCEPT
                                  !.scheduled_at = req[p].scheduled_at,
                                  !.end_time = bookings'[i].end_time]
                         ELSE bookings[i]
          /\ (pc[p] \in {"r_conflict", "r_release", "r_consume"} /\ pc'[p] # pc[p])
             => bookings' = bookings]_vars

\* C8 witness: a reschedule has answered 200 and moved its booking.
C8_Witness ==
    \E p \in Procs :
        /\ pc[p] = "done" /\ req[p].kind = "reschedule" /\ resp[p] = 200
        /\ bookings[req[p].bookingId].scheduled_at = req[p].scheduled_at
        /\ local[p].booking.scheduled_at # req[p].scheduled_at

\* C9: the conflict check of a reschedule answers 409 exactly when another
\* confirmed booking of the same event type overlaps the new interval (half-open);
\* the booking's own interval never counts, and a rejection leaves the bookings and
\* the slots untouched.
C9_RescheduleConflict ==
    [][\A p \in Procs :
          (pc[p] = "r_conflict" /\ pc'[p] # "r_conflict" /\ resp'[p] # 500)
          => LET b == bookings[req[p].bookingId]
                 s == req[p].scheduled_at
                 e == s + b.duration_minutes
                 hit == \E i \in DOMAIN bookings :
                            /\ i # req[p].bookingId
                            /\ bookings[i].event_type_id = b.event_type_id
                            /\ Confirmed(bookings[i])
                            /\ Overlap(bookings[i].scheduled_at, bookings[i].end_time, s, e)
             IN /\ hit <=> (pc'[p] = "done" /\ resp'[p] = 409)
                /\ ~hit => pc'[p] = "r_release"
                /\ hit => /\ UNCHANGED <<bookings, availability_slots>>
                          /\ effects[p] = {} /\ failed[p] = {}]_vars

\* C9 witness: a reschedule whose new interval overlaps the booking's own old
\* interval has been accepted.
C9_Witness ==
    \E p \in Procs :
        /\ pc[p] = "done" /\ req[p].kind = "reschedule" /\ resp[p] = 200
        /\ local[p].booking.scheduled_at # req[p].scheduled_at
        /\ Overlap(local[p].booking.scheduled_at,
                   local[p].booking.scheduled_at + local[p].booking.duration_minutes,
                   req[p].scheduled_at, local[p].endTime)

\* C10: cancelled is terminal: no step takes a booking from cancelled back to
\* confirmed, and a reschedule request arriving for a cancelled booking is
\* answered not found (a store failure aside) without changing the store.
C10_CancelledTerminal ==
    [][/\ \A i \in DOMAIN bookings :
             bookings[i].status = "cancelled"
             => (i \in DOMAIN bookings' /\ bookings'[i].status = "cancelled")
       /\ \A p \in Procs :
             (/\ Starts(p)
              /\ req'[p].kind = "reschedule"
              /\ req'[p].scheduled_at # NoTime
              /\ req'[p].bookingId \in DOMAIN bookings
              /\ bookings[req'[p].bookingId].status = "cancelled")
             => /\ pc'[p] = "done"
                /\ resp'[p] \in {404, 500}
                /\ UNCHANGED store]_vars

\* C10 witness: the owner's reschedule of a cancelled booking has been answered 404.
C10_Witness ==
    \E p \in Procs :
        /\ pc[p] = "done" /\ req[p].kind = "reschedule" /\ resp[p] = 404
        /\ req[p].bookingId \in DOMAIN bookings
        /\ bookings[req[p].bookingId].status = "cancelled"
        /\ bookings[req[p].bookingId].user_id = req[p].userId
        /\ req[p].scheduled_at # NoTime

\* The step with which worker p sends the response of its request.
Answers(p) == pc'[p] = "done" /\ (pc[p] # "done" \/ Starts(p))

\* Some confirmed booking of event type et overlaps [s, e) (half-open).
ConfirmedOverlap(bs, et, s, e) ==
    \E i \in DOMAIN bs :
        /\ bs[i].event_type_id = et
        /\ Confirmed(bs[i])
        /\ Overlap(bs[i].scheduled_at, bs[i].end_time, s, e)

\* C11: a create request is answered 409 only by its conflict check and only when
\* a confirmed booking of its own event type overlaps it; cancelled bookings,
\* bookings of other event types and the flags of the slots play no part, so a
\* request without such a booking passes the check and its booking is stored
\* (a store failure aside).
C11_OnlyConfirmedSameType ==
    [][\A p \in Procs :
          /\ (Answers(p) /\ req'[p].kind = "create" /\ resp'[p] = 409)
             => /\ pc[p] = "c_conflict"
                /\ ConfirmedOverlap(bookings, req[p].event_type_id,
                                    req[p].scheduled_at, local[p].endTime)
          /\ (/\ pc[p] = "c_conflict" /\ pc'[p] # "c_conflict" /\ resp'[p] # 500
              /\ ~ConfirmedOverlap(bookings, req[p].event_type_id,
                                   req[p].scheduled_at, local[p].endTime))
             => pc'[p] = "c_insert"
          /\ (pc[p] = "c_insert" /\ pc'[p] # "c_insert" /\ resp'[p] # 500)
             => /\ pc'[p] = "c_slots"
                /\ Len(bookings') = Len(bookings) + 1
                /\ Confirmed(bookings'[Len(bookings')])
                /\ bookings'[Len(bookings')].scheduled_at = req[p].scheduled_at]_vars

\* C11 witness: a create request has been answered 201 although a cancelled
\* booking of its event type overlaps it and a slot of its window is inactive.
C11_Witness ==
    \E p \in Procs, i \in DOMAIN bookings, s \in DOMAIN availability_slots :
        /\ pc[p] = "done" /\ req[p].kind = "create" /\ resp[p] = 201
        /\ i < local[p].bookingId
        /\ bookings[i].event_type_id = req[p].event_type_id
        /\ bookings[i].status = "cancelled"
        /\ Overlap(bookings[i].scheduled_at, bookings[i].end_time,
                   req[p].scheduled_at, local[p].endTime)
        /\ availability_slots[s].event_type_id = req[p].event_type_id
        /\ ~availability_slots[s].is_active
        /\ "slots" \in failed[p]
        /\ Overlap(availability_slots[s].start_time, availability_slots[s].end_time,
                   TimeOfDay(req[p].scheduled_at), TimeOfDay(local[p].endTime))
        /\ Confirmed(bookings[local[p].bookingId])

\* The counters of key (user, et, date): zero when the key has no row.
Counter(rows, user, et, date) ==
    LET hit == {r \in rows : r.user_id = user /\ r.event_type_id = et /\ r.date = date}
    IN IF hit = {}
       THEN [booking_count |-> 0, cancellation_count |-> 0]
       ELSE LET r == CHOOSE r \in hit : TRUE
            IN [booking_count |-> r.booking_count, cancellation_count |-> r.cancellation_count]

\* The keys of the analytics table that can occur.
CounterKeys == Users \X EventTypeIds \X {Today(Now0)}

C13_ConsumeReleaseRoundTrip ==
    \A et \in EventTypeIds, t \in StartTimes :
        LET day == DayOfWeek(t)
            startTime == TimeOfDay(t)
            endTime == TimeOfDay(AddMinutes(t, event_types[et].duration_minutes))
            consumed == ConsumeSlot(availability_slots, et, day, endTime, startTime)
            released == ReleaseSlot(consumed, et, day, startTime)
        IN \A s \in DOMAIN availability_slots :
              IF /\ availability_slots[s].event_type_id = et
                 /\ availability_slots[s].day_of_week = day
                 /\ availability_slots[s].start_time = startTime
              THEN released[s].is_active = availability_slots[s].is_active
              ELSE (availability_slots[s].is_active /\ ~consumed[s].is_active)
                      => ~released[s].is_active

\* C14: a valid create request naming an event type that has no row, is inactive
\* or is soft-deleted is answered 404 (500 when the query fails) in its first step,
\* which changes no table, provisions no meeting, arms no timer and attempts no
\* effect.
C14_NoEventTypeNotFound ==
    [][\A p \in Procs :
          (/\ Starts(p)
           /\ req'[p].kind = "create"
           /\ req'[p].scheduled_at # NoTime
           /\ LET et == req'[p].event_type_id
              IN \/ et \notin DOMAIN event_types
                 \/ ~event_types[et].is_active
                 \/ event_types[et].deleted_at # NoTime)
          => /\ pc'[p] = "done"
             /\ resp'[p] \in {404, 500}
             /\ UNCHANGED <<users, event_types, availability_slots, bookings, analytics,
                            meetings, timers>>
             /\ effects'[p] = {} /\ failed'[p] = {}]_vars

\* C14 witness: after a delete request soft-deleted et1, a create request for it
\* has been answered 404 with no booking stored.
C14_Witness ==
    \E p \in Procs :
        /\ pc[p] = "done" /\ req[p].kind = "create" /\ resp[p] = 404
        /\ req[p].event_type_id \in DOMAIN event_types
        /\ event_types[req[p].event_type_id].deleted_at # NoTime
        /\ event_types[req[p].event_type_id].is_active
        /\ bookings = <<>> /\ analytics = {} /\ meetings = 0 /\ timers = {}

\* C15: a cancel request, or a reschedule request with a scheduled_at, for a stored
\* booking made by a user who is not the booking's owner is answered 404 (500 when
\* the lookup fails) in its first step, which leaves the bookings, the slots and
\* the analytics counters unchanged and attempts no effect.
C15_NotOwnerNotFound ==
    [][\A p \in Procs :
          (/\ Starts(p)
           /\ \/ req'[p].kind = "cancel"
              \/ req'[p].kind = "reschedule" /\ req'[p].scheduled_at # NoTime
           /\ req'[p].bookingId \in DOMAIN bookings
           /\ bookings[req'[p].bookingId].user_id # req'[p].userId)
          => /\ pc'[p] = "done"
             /\ resp'[p] \in {404, 500}
             /\ UNCHANGED <<bookings, availability_slots, analytics>>
             /\ effects'[p] = {} /\ failed'[p] = {}]_vars

\* C15 witness: a cancel request by another user for a confirmed booking has been
\* answered 404 and the booking is still confirmed with its slot still consumed.
C15_Witness ==
    \E p \in Procs :
        /\ pc[p] = "done" /\ req[p].kind = "cancel" /\ resp[p] = 404
        /\ req[p].bookingId \in DOMAIN bookings
        /\ bookings[req[p].bookingId].user_id # req[p].userId
        /\ Confirmed(bookings[req[p].bookingId])
        /\ bookings[req[p].bookingId].scheduled_at = MondayTenAM
        /\ ~availability_slots["s1"].is_active
        /\ \A r \in analytics : r.cancellation_count = 0

\* Every booking stored before the step has the same end_time after it.
EndTimesKept ==
    \A i \in DOMAIN bookings :
        i \in DOMAIN bookings' /\ bookings'[i].end_time = bookings[i].end_time

\* C16 as claimed: the insert of a create request stores end_time = scheduled_at +
\* the duration the request read from the event type, the update of a reschedule
\* stores end_time = scheduled_at + the duration the event type has at that
\* moment, and no other step changes the end_time of a booking.
C16_EndFromEventDuration ==
    [][\A p \in Procs :
          /\ (pc[p] = "c_insert" /\ pc'[p] = "c_slots")
             => LET b == bookings'[Len(bookings')]
                IN /\ b.end_time = b.scheduled_at + local[p].eventType.duration_minutes
                   /\ EndTimesKept
          /\ (pc[p] = "r_update" /\ "update" \in effects'[p])
             => LET b == bookings'[req[p].bookingId]
                IN /\ b.end_time =
                        b.scheduled_at + event_types[b.event_type_id].duration_minutes
                   /\ \A i \in DOMAIN bookings \ {req[p].bookingId} :
                         bookings'[i].end_time = bookings[i].end_time
          /\ (\A q \in Procs : ~(pc[q] = "c_insert" /\ pc'[q] = "c_slots")
                               /\ ~(pc[q] = "r_update" /\ "update" \in effects'[q]))
             => EndTimesKept]_vars

\* C16 as amended: the insert of a create request stores end_time = scheduled_at +
\* the duration the request read from the event type and stores that duration in
\* the row, the update of a reschedule stores end_time = scheduled_at + the
\* duration stored in the booking (whatever the event type's duration is by then)
\* and keeps the stored duration, and no other step changes the end_time of a
\* booking.
C16_EndFromStoredDuration ==
    [][\A p \in Procs :
          /\ (pc[p] = "c_insert" /\ pc'[p] = "c_slots")
             => LET b == bookings'[Len(bookings')]
                IN /\ b.end_time = b.scheduled_at + local[p].eventType.duration_minutes
                   /\ b.duration_minutes = local[p].eventType.duration_minutes
                   /\ EndTimesKept
          /\ (pc[p] = "r_update" /\ "update" \in effects'[p])
             => LET b == bookings'[req[p].bookingId]
                IN /\ b.scheduled_at = req[p].scheduled_at
                   /\ b.end_time = b.scheduled_at + bookings[req[p].bookingId].duration_minutes
                   /\ b.duration_minutes = bookings[req[p].bookingId].duration_minutes
                   /\ \A i \in DOMAIN bookings \ {req[p].bookingId} :
                         bookings'[i].end_time = bookings[i].end_time
          /\ (\A q \in Procs : ~(pc[q] = "c_insert" /\ pc'[q] = "c_slots")
                               /\ ~(pc[q] = "r_update" /\ "update" \in effects'[q]))
             => EndTimesKept]_vars

\* C16 witness: a booking created with duration 30 has been moved by a reschedule
\* after its event type's duration was changed to 45; it still lasts 30 minutes.
C16_Witness ==
    \E p \in Procs :
        /\ pc[p] = "done" /\ req[p].kind = "reschedule" /\ resp[p] = 200
        /\ local[p].booking.scheduled_at # req[p].scheduled_at
        /\ LET b == bookings[req[p].bookingId]
           IN /\ b.scheduled_at = req[p].scheduled_at
              /\ b.duration_minutes = DefaultDuration
              /\ b.end_time = b.scheduled_at + DefaultDuration
              /\ event_types[b.event_type_id].duration_minutes = 45

C18_CountersUniqueMonotone ==
    /\ [](\A r1, r2 \in analytics :
            (/\ r1.user_id = r2.user_id
             /\ r1.event_type_id = r2.event_type_id
             /\ r1.date = r2.date)
            => r1 = r2)
    /\ [][\A r \in analytics :
            \E r2 \in analytics' :
                /\ r2.user_id = r.user_id
                /\ r2.event_type_id = r.event_type_id
                /\ r2.date = r.date
                /\ r2.booking_count >= r.booking_count
                /\ r2.cancellation_count >= r.cancellation_count]_vars

\* C18 witness: after two creates and a cancel of et1 the table holds the single
\* row of its key, counting two bookings and one cancellation.
C18_Witness ==
    /\ analytics = {[user_id |-> "u1", event_type_id |-> "et1", date |-> Today(now),
                     booking_count |-> 2, cancellation_count |-> 1]}
    /\ \E p \in Procs : pc[p] = "done" /\ req[p].kind = "cancel" /\ resp[p] = 200

\* C19: every stored availability slot has start_time < end_time and one of the
\* seven day names, and an add-slot request whose day is not one of them or whose
\* start is not before its end is rejected without creating a slot.
C19_SlotsWellFormed ==
    /\ [](\A s \in DOMAIN availability_slots :
            /\ availability_slots[s].start_time < availability_slots[s].end_time
            /\ availability_slots[s].day_of_week \in WeekDays)
    /\ [][\A p \in Procs :
            (/\ req'[p].kind = "add_slot"
             /\ \/ req'[p].day_of_week \notin WeekDays
                \/ ~MatchesHHMM(req'[p].start_time)
                \/ ~MatchesHHMM(req'[p].end_time)
                \/ ToTime(req'[p].start_time) >= ToTime(req'[p].end_time))
            => /\ availability_slots' = availability_slots
               /\ pc'[p] = "done" => resp'[p] \in {400, 404, 500}]_vars

\* The offsets of the timers armed for booking b.
ArmedFor(ts, b) == {t.hoursUntilBooking : t \in {t \in ts : t.bookingId = b}}

\* C20: the step in which a create request schedules its reminders arms, for each
\* of the offsets 24 h and 1 h, one timer for its booking exactly when scheduled_at
\* minus the offset is strictly later than the clock at that step, with that fire
\* time, and keeps every timer armed before: a start at most 1 h ahead arms none,
\* one more than 1 h and at most 24 h ahead arms the 1 h reminder only, one more
\* than 24 h ahead arms both.
C20_RemindersArmed ==
    [][\A p \in Procs :
          (pc[p] = "c_slots" /\ pc'[p] = "done" /\ "reminders" \in effects'[p])
          => LET s == req[p].scheduled_at
                 b == local[p].bookingId
                 armed == ArmedFor(timers', b)
             IN /\ ArmedFor(timers, b) = {}
                /\ timers \subseteq timers'
                /\ \A t \in timers' \ timers :
                      /\ t.bookingId = b
                      /\ t.scheduledAt = s
                      /\ t.fireAt = s - t.hoursUntilBooking * MinutesPerHour
                /\ Cardinality(timers' \ timers) = Cardinality(armed)
                /\ \A h \in {24, 1} : h \in armed <=> s - h * MinutesPerHour > now
                /\ armed \subseteq {24, 1}
                /\ (s - now <= MinutesPerHour) => armed = {}
                /\ (s - now > MinutesPerHour /\ s - now <= MinutesPerDay) => armed = {1}
                /\ (s - now > MinutesPerDay) => armed = {24, 1}]_vars

\* C20 witness: three bookings have been created, the first more than 24 h ahead
\* with both timers, the second between 1 h and 24 h ahead with the 1 h timer only,
\* the third exactly 1 h ahead with none.
C20_Witness ==
    /\ Len(bookings) = 3
    /\ \A p \in Procs : pc[p] \in {"idle", "done"}
    /\ \E p \in Procs : /\ req[p].kind = "create" /\ resp[p] = 201
                        /\ local[p].bookingId = 3
                        /\ "reminders" \in effects[p]
                        /\ req[p].scheduled_at - now = MinutesPerHour
    /\ ArmedFor(timers, 1) = {24, 1}
    /\ ArmedFor(timers, 2) = {1}
    /\ ArmedFor(timers, 3) = {}

\* The timer t after its callback has run.
Fired(t) == [t EXCEPT !.fired = TRUE]

\* C21: cancelling or rescheduling a booking neither retracts nor re-arms its reminder
\* timers.  No step removes or rewrites a timer: a timer stays as it was armed, or its
\* callback runs once its fire time has come; the cancel and reschedule handlers never
\* touch the timers; a new timer is armed only by the create handler and carries the
\* scheduled_at and the id of the booking that handler created.  While the process
\* stays up every armed timer fires in the end, whatever became of its booking.
C21_TimersSurvive ==
    /\ [][/\ \A t \in timers :
                \/ t \in timers'
                \/ ~t.fired /\ now >= t.fireAt /\ Fired(t) \in timers'
          /\ \A p \in Procs :
                req[p].kind \in {"cancel", "reschedule"} /\ pc[p] \notin {"idle", "done"}
                    /\ pc'[p] # pc[p]
                    => timers' = timers
          /\ \A t \in timers' \ timers :
                \/ \E u \in timers : ~u.fired /\ t = Fired(u)
                \/ \E p \in Procs :
                      /\ pc[p] = "c_slots"
                      /\ pc'[p] = "done"
                      /\ ~t.fired
                      /\ t.bookingId = local[p].bookingId
                      /\ t.scheduledAt = req[p].scheduled_at
                      /\ t.fireAt = req[p].scheduled_at - t.hoursUntilBooking * MinutesPerHour]_vars
    /\ <>[](\A t \in timers : t.fired)

\* A reminder has fired after its booking was moved and then cancelled: it carries
\* the start the booking was created with, which the row no longer holds.
C21_Witness ==
    \E t \in timers :
        /\ t.fired
        /\ t.bookingId \in DOMAIN bookings
        /\ bookings[t.bookingId].status = "cancelled"
        /\ bookings[t.bookingId].cancelled_at < t.fireAt
        /\ bookings[t.bookingId].scheduled_at # t.scheduledAt

\* C22: a meeting is provisioned only for a create request whose booking row has been
\* stored: a request that has provisioned its meeting has inserted its row, and the
\* provider never holds more meetings than the table holds bookings.
C22_MeetingOnlyAfterInsert ==
    /\ \A p \in Procs :
          req[p].kind = "create" /\ "meeting" \in effects[p] => "insert" \in effects[p]
    /\ meetings <= Len(bookings)

\* The statements of a request that write to bookings or to availability_slots, as
\* recorded in its effects once they have run.
StoreWrites == {"insert", "update", "slots", "release", "consume"}

\* The is_active column of availability_slots.
ActiveFlags(slots) == [s \in DOMAIN slots |-> slots[s].is_active]

\* C23: a create or reschedule request that ends in a generic failure is
\* all-or-nothing: none of its statements has written to bookings or to
\* availability_slots, and the step that fails leaves the bookings table and the
\* active flag of every slot as they were.
C23_FailureWritesNothing ==
    /\ [](\A p \in Procs :
            req[p].kind \in {"create", "reschedule"} /\ pc[p] = "done" /\ resp[p] = 500
                => effects[p] \cap StoreWrites = {})
    /\ [][\A p \in Procs :
            req'[p].kind \in {"create", "reschedule"} /\ Answers(p) /\ resp'[p] = 500
                => /\ bookings' = bookings
                   /\ ActiveFlags(availability_slots') = ActiveFlags(availability_slots)]_vars

\* C24: changing an event type's duration does not resize its bookings.  The update
\* request leaves every stored booking as it is; a create request takes the duration
\* the event type has when the request reads it, and the row it inserts has that
\* duration and ends that long after its start.
C24_UpdateKeepsBookings ==
    [][\A p \in Procs :
          /\ Starts(p) /\ req'[p].kind = "update_event" => bookings' = bookings
          /\ Starts(p) /\ req'[p].kind = "create" /\ pc'[p] = "c_conflict"
                => /\ local'[p].eventType.duration_minutes
                        = event_types[req'[p].event_type_id].duration_minutes
                   /\ local'[p].endTime
                        = req'[p].scheduled_at
                            + event_types[req'[p].event_type_id].duration_minutes
          /\ pc[p] = "c_insert" /\ pc'[p] = "c_slots"
                => /\ Len(bookings') = Len(bookings) + 1
                   /\ \A i \in DOMAIN bookings : bookings'[i] = bookings[i]
                   /\ bookings'[Len(bookings')].duration_minutes
                        = local[p].eventType.duration_minutes
                   /\ bookings'[Len(bookings')].end_time
                        = bookings'[Len(bookings')].scheduled_at
                            + local[p].eventType.duration_minutes]_vars

\* The duration of et1 has been changed: a booking made before keeps its length, and
\* a booking made afterwards has the new one.
C24_Witness ==
    \E i, j \in DOMAIN bookings :
        /\ i < j
        /\ bookings[i].event_type_id = "et1"
        /\ bookings[j].event_type_id = "et1"
        /\ event_types["et1"].duration_minutes # DefaultDuration
        /\ bookings[i].duration_minutes = DefaultDuration
        /\ bookings[i].end_time = bookings[i].scheduled_at + DefaultDuration
        /\ bookings[j].duration_minutes = event_types["et1"].duration_minutes
        /\ bookings[j].end_time = bookings[j].scheduled_at + event_types["et1"].duration_minutes

\* A list request that has been answered with rows.
Listed(p) == req[p].kind = "list" /\ pc[p] = "done" /\ resp[p] = 200

\* The bookings a list request asks for: owned by the caller, not soft-deleted and
\* matching every filter the request gives.
Wanted(r) ==
    {i \in DOMAIN bookings :
        /\ bookings[i].user_id = r.userId
        /\ bookings[i].deleted_at = NULL
        /\ r.status # NULL => bookings[i].status = r.status
        /\ r.event_type_id # NULL => bookings[i].event_type_id = r.event_type_id
        /\ r.startDate # NoTime => r.startDate <= bookings[i].scheduled_at
        /\ r.endDate # NoTime => bookings[i].scheduled_at <= r.endDate}

\* The rows answered are a page of the wanted bookings in descending start order:
\* each wanted booking at most once, latest first, at most `limit` of them, and as
\* many as remain after skipping `offset`; the wanted bookings left out are the
\* `offset` ones before the page and the ones after it.
ListedPage(p) ==
    LET rows == local[p].rows
        want == Wanted(req[p])
        left == Cardinality(want) - req[p].offset
    IN /\ \A k \in DOMAIN rows : \E i \in want : rows[k] = ListColumns(bookings[i])
       /\ \A k, l \in DOMAIN rows : k # l => rows[k].id # rows[l].id
       /\ \A k, l \in DOMAIN rows : k < l => rows[k].scheduledAt >= rows[l].scheduledAt
       /\ Len(rows) <= req[p].limit
       /\ Len(rows) = IF left <= 0 THEN 0 ELSE IF left < req[p].limit THEN left ELSE req[p].limit
       /\ rows # <<>> =>
            /\ Cardinality({i \in want : bookings[i].scheduled_at > rows[1].scheduledAt})
                  <= req[p].offset
            /\ Cardinality({i \in want : bookings[i].scheduled_at >= rows[Len(rows)].scheduledAt})
                  >= req[p].offset + Len(rows)

\* C25: a list request is answered with a page of the caller's own, not soft-deleted
\* bookings that match every filter given, in descending start order, at most `limit`
\* rows after the first `offset`; it leaves the store as it is, and two requests with
\* the same parameters over the same store are answered with the same rows.
C25_ListBookings ==
    /\ [](\A p \in Procs : Listed(p) => ListedPage(p))
    /\ [](\A p, q \in Procs :
            Listed(p) /\ Listed(q) /\ req[p] = req[q] => local[p].rows = local[q].rows)
    /\ [][\A p \in Procs :
            req[p].kind = "list" /\ pc[p] = "l_query"
                => UNCHANGED <<store, meetings, timers>>]_vars

\* The days of the week in the order the listing asks for.
WeekOrder == <<"Monday", "Tuesday", "Wednesday", "Thursday", "Friday", "Saturday", "Sunday">>

\* Slot row a comes no later than slot row b: an earlier day of the week, or the
\* same day and a start that is not later.
SlotBefore(a, b) ==
    \E i, j \in DOMAIN WeekOrder :
        /\ WeekOrder[i] = a.dayOfWeek
        /\ WeekOrder[j] = b.dayOfWeek
        /\ i < j \/ (i = j /\ a.startTime <= b.startTime)

\* C26: a get-slots request is answered with exactly the active slots of the event
\* type, each once, ordered by day of the week from Monday to Sunday and, within a
\* day, by ascending start time.
C26_ActiveSlotsOrdered ==
    [][\A p \in Procs :
          Starts(p) /\ req'[p].kind = "get_slots" /\ resp'[p] = 200
              => LET rows == local'[p].rows
                 IN /\ {rows[k].id : k \in DOMAIN rows}
                         = {s \in DOMAIN availability_slots :
                               /\ availability_slots[s].event_type_id = req'[p].event_type_id
                               /\ availability_slots[s].is_active = TRUE}
                    /\ \A k, l \in DOMAIN rows : k # l => rows[k].id # rows[l].id
                    /\ \A k \in DOMAIN rows :
                          /\ rows[k].isActive
                          /\ rows[k].dayOfWeek = availability_slots[rows[k].id].day_of_week
                          /\ rows[k].startTime = availability_slots[rows[k].id].start_time
                    /\ \A k, l \in DOMAIN rows : k < l => SlotBefore(rows[k], rows[l])]_vars

\* The slots of et1 have been listed after a Sunday slot was added and slot s1 was
\* deleted: the answer leaves s1 out and puts the Sunday slot, which starts earliest,
\* after the Monday slot.
C26_Witness ==
    \E p \in Procs :
        /\ req[p].kind = "get_slots"
        /\ pc[p] = "done"
        /\ resp[p] = 200
        /\ req[p].event_type_id = "et1"
        /\ ~availability_slots["s1"].is_active
        /\ Len(local[p].rows) = 2
        /\ local[p].rows[1].dayOfWeek = "Monday"
        /\ local[p].rows[2].dayOfWeek = "Sunday"
        /\ local[p].rows[2].startTime < local[p].rows[1].startTime

\* The text spells the id of a user who exists and is not deleted; it carries no
\* signature.
SpellsLiveUser(t, us) ==
    /\ t.form = "uuid"
    /\ t.signedBy = NULL
    /\ t.userId \in DOMAIN us
    /\ us[t.userId].deleted_at = NoTime

\* C27: the refresh operation takes an unsigned identifier for a credential.  A
\* request whose refreshToken field is the id of an existing, not deleted user is
\* answered, unless the store fails, with a new access token and a new refresh token
\* of that user, nothing of it having been verified; a request with any other field
\* (none, an unknown or deleted user's id, a signed token, any other text) gets no
\* token.
C27_RefreshByBareId ==
    [][\A p \in Procs :
          Starts(p) /\ req'[p].kind = "refresh"
              => IF SpellsLiveUser(req'[p].refreshToken, users) /\ faults' = faults
                 THEN /\ resp'[p] = 200
                      /\ local'[p].token =
                            [form |-> "jwt", userId |-> req'[p].refreshToken.userId,
                             email |-> users[req'[p].refreshToken.userId].email,
                             signedBy |-> JWT_SECRET, expiresIn |-> JWT_EXPIRES_IN, iat |-> now]
                      /\ local'[p].newRefreshToken =
                            [form |-> "jwt", userId |-> req'[p].refreshToken.userId,
                             email |-> NULL,
                             signedBy |-> JWT_SECRET, expiresIn |-> REFRESH_TOKEN_EXPIRES_IN,
                             iat |-> now]
                 ELSE /\ resp'[p] \in {400, 401, 500}
                      /\ local'[p].token = NoToken
                      /\ local'[p].newRefreshToken = NoToken]_vars

\* Both cases have happened: one request with the bare id of u2 holds tokens of u2,
\* and one with a refresh token the server signed for u1 holds none.
C27_Witness ==
    \E p, q \in Procs :
        /\ req[p].kind = "refresh"
        /\ req[p].refreshToken = [form |-> "uuid", userId |-> "u2", upper |-> FALSE,
                                  signedBy |-> NULL]
        /\ resp[p] = 200
        /\ local[p].token.userId = "u2"
        /\ local[p].newRefreshToken.userId = "u2"
        /\ req[q].kind = "refresh"
        /\ req[q].refreshToken.form = "jwt"
        /\ req[q].refreshToken.signedBy = JWT_SECRET
        /\ pc[q] = "done"
        /\ resp[q] # 200
        /\ local[q].token = NoToken

\* C28: of two reschedule requests that run at the same time for two different
\* confirmed bookings of one event type and ask for overlapping intervals, at most
\* one succeeds; and between the conflict check of a reschedule request and its
\* update no other request writes to the bookings of that event type.
C28_ReschedulesSerialized ==
    /\ [](\A p, q \in Procs :
            /\ p # q
            /\ req[p].kind = "reschedule" /\ req[q].kind = "reschedule"
            /\ req[p].bookingId # req[q].bookingId
            /\ local[p].booking.event_type_id = local[q].booking.event_type_id
            /\ Overlap(req[p].scheduled_at, local[p].endTime,
                       req[q].scheduled_at, local[q].endTime)
            => ~(resp[p] = 200 /\ resp[q] = 200))
    /\ [][\A p, q \in Procs :
            /\ p # q
            /\ req[p].kind = "reschedule"
            /\ pc[p] \in {"r_release", "r_consume", "r_update"}
            /\ pc'[q] # pc[q]
            => \A i \in DOMAIN bookings :
                  bookings[i].event_type_id = local[p].booking.event_type_id
                      => bookings'[i] = bookings[i]]_vars

\* C29: when the requests run one after another, confirmed bookings of one event
\* type never overlap, whatever durations the event type has been given between
\* the requests; in particular none overlap once a request has been answered.
C29_SerialNoOverlap ==
    \A i \in DOMAIN bookings :
        Confirmed(bookings[i]) =>
            \A j \in DOMAIN bookings \ {i} :
                Confirmed(bookings[j]) /\ bookings[j].event_type_id = bookings[i].event_type_id
                    => \/ bookings[i].end_time <= bookings[j].scheduled_at
                       \/ bookings[j].end_time <= bookings[i].scheduled_at

\* After a change of et1's duration between two create requests, two confirmed
\* bookings of et1 of different lengths stand back to back.
C29_Witness ==
    /\ Quiet
    /\ \E i, j \in DOMAIN bookings :
          /\ Confirmed(bookings[i]) /\ Confirmed(bookings[j])
          /\ bookings[i].event_type_id = "et1" /\ bookings[j].event_type_id = "et1"
          /\ bookings[i].duration_minutes # bookings[j].duration_minutes
          /\ bookings[i].end_time = bookings[j].scheduled_at
          /\ event_types["et1"].duration_minutes = bookings[j].duration_minutes

\* C30: a cancelled booking keeps its scheduled_at and end_time in every step, and a
\* reschedule request never runs its slot consumption or its update for a booking
\* that is cancelled by then: it has finished before the cancel takes effect, or it
\* is rejected.
C30_CancelledKeepsTime ==
    [][/\ \A i \in DOMAIN bookings :
             bookings[i].status = "cancelled"
                 => /\ bookings'[i].scheduled_at = bookings[i].scheduled_at
                    /\ bookings'[i].end_time = bookings[i].end_time
       /\ \A p \in Procs :
             /\ req[p].kind = "reschedule"
             /\ pc[p] \in {"r_consume", "r_update"}
             /\ pc'[p] # pc[p]
             /\ bookings[req[p].bookingId].status = "cancelled"
             => /\ availability_slots' = availability_slots
                /\ bookings' = bookings
                /\ resp'[p] # 200]_vars

\* The part of a booking's time-of-day window that lies on its start day: [s, e), or
\* [s, midnight) when the booking runs past midnight.
WindowEnd(s, e) == IF TimeOfDay(e) > TimeOfDay(s) THEN TimeOfDay(e) ELSE MinutesPerDay

\* C31: when a create request's slot update succeeds, every slot of the event type on
\* the booking's start day whose interval intersects the booking's time-of-day window
\* (half-open) is inactive afterwards, also when the booking runs past midnight, and
\* no slot of another event type or another day is changed.
C31_ConsumesWindow ==
    [][\A p \in Procs :
          pc[p] = "c_slots" /\ pc'[p] = "done" /\ "slots" \in effects'[p]
              => \A s \in DOMAIN availability_slots :
                    LET sl == availability_slots[s]
                    IN IF /\ sl.event_type_id = req[p].event_type_id
                          /\ sl.day_of_week = DayOfWeek(req[p].scheduled_at)
                       THEN Overlap(sl.start_time, sl.end_time, TimeOfDay(req[p].scheduled_at),
                                    WindowEnd(req[p].scheduled_at, local[p].endTime))
                                => ~availability_slots'[s].is_active
                       ELSE availability_slots'[s] = sl]_vars

\* Slot sl belongs to the event type of the booking that worker p reschedules, lies
\* on the booking's old day and starts at its old start.
AtOldStart(p, sl) ==
    /\ sl.event_type_id = local[p].booking.event_type_id
    /\ sl.day_of_week = DayOfWeek(local[p].booking.scheduled_at)
    /\ sl.start_time = TimeOfDay(local[p].booking.scheduled_at)

\* Slot sl belongs to that event type, lies on the new day and intersects the new
\* time-of-day window.
InNewWindow(p, sl) ==
    /\ sl.event_type_id = local[p].booking.event_type_id
    /\ sl.day_of_week = DayOfWeek(req[p].scheduled_at)
    /\ Overlap(sl.start_time, sl.end_time,
               TimeOfDay(req[p].scheduled_at), TimeOfDay(local[p].endTime))

\* C32: a reschedule first reactivates the slots at the booking's old day and start
\* and leaves every other slot (one the old window only partially overlaps included)
\* as it was, and then deactivates the slots that intersect the new window and
\* leaves the others: at the end a slot at the old start inside the new window is
\* inactive and one at the old start outside the new window is active.
C32_ReleaseThenConsume ==
    /\ [](\A p \in Procs :
            pc[p] = "r_consume" /\ "release" \in effects[p]
                => \A s \in DOMAIN availability_slots :
                      AtOldStart(p, availability_slots[s])
                          => availability_slots[s].is_active)
    /\ [][\A p \in Procs :
            /\ pc'[p] = "r_consume" /\ pc[p] # "r_consume" => pc[p] = "r_release"
            /\ pc'[p] = "r_update" /\ pc[p] # "r_update" => pc[p] = "r_consume"
            /\ pc[p] = "r_release" /\ "release" \in effects'[p]
                => \A s \in DOMAIN availability_slots :
                      LET sl == availability_slots[s]
                      IN IF AtOldStart(p, sl)
                         THEN availability_slots'[s] = [sl EXCEPT !.is_active = TRUE]
                         ELSE availability_slots'[s] = sl
            /\ pc[p] = "r_consume" /\ "consume" \in effects'[p]
                => \A s \in DOMAIN availability_slots :
                      LET sl == availability_slots[s]
                      IN IF InNewWindow(p, sl)
                         THEN availability_slots'[s] = [sl EXCEPT !.is_active = FALSE]
                         ELSE availability_slots'[s] = sl
            /\ pc[p] = "r_consume" /\ {"release", "consume"} \subseteq effects'[p]
                => \A s \in DOMAIN availability_slots :
                      AtOldStart(p, availability_slots[s])
                          => (availability_slots'[s].is_active
                                <=> ~InNewWindow(p, availability_slots[s]))]_vars

\* A booking was moved from Monday 10:00 to Monday 10:15, both slot updates succeeded,
\* and the slot at 10:00, which the new window intersects, is inactive while the
\* slot at 10:30 is inactive too.
C32_Witness ==
    \E p \in Procs :
        /\ pc[p] = "done" /\ resp[p] = 200 /\ req[p].kind = "reschedule"
        /\ {"release", "consume"} \subseteq effects[p]
        /\ local[p].booking.event_type_id = "et1"
        /\ local[p].booking.scheduled_at = MondayTenAM
        /\ req[p].scheduled_at = MondayTenAM + 15
        /\ ~availability_slots["s1"].is_active
        /\ ~availability_slots["s2"].is_active

\* C33: the callback of an armed reminder timer runs no earlier than its reminder
\* time fireAt = scheduled_at - offset, however far ahead the booking is scheduled.
C33_NeverEarly ==
    [][\A t \in timers :
          ~t.fired /\ Fired(t) \in timers' => now >= t.fireAt]_vars

\* The sum of cancellation_count over the analytics rows in rows.
RECURSIVE CancellationSum(_)
CancellationSum(rows) ==
    IF rows = {}
    THEN 0
    ELSE LET r == CHOOSE r \in rows : TRUE
         IN r.cancellation_count + CancellationSum(rows \ {r})

C35_ConsumedStaysInactive ==
    Quiet =>
        \A s \in DOMAIN availability_slots, i \in DOMAIN bookings :
            LET sl == availability_slots[s]
                b == bookings[i]
            IN (/\ Confirmed(b)
                /\ b.event_type_id = sl.event_type_id
                /\ DayOfWeek(b.scheduled_at) = sl.day_of_week
                /\ Overlap(sl.start_time, sl.end_time,
                           TimeOfDay(b.scheduled_at), TimeOfDay(b.end_time)))
               => ~sl.is_active

\* C36: a slot its owner has deleted stays inactive under every later sequence of
\* create, cancel and reschedule requests (s1 is deleted before the first request).
C36_DeletedStaysInactive == ~availability_slots["s1"].is_active

\* C37: a delete-slot request by a user who does not own the slot's event type
\* leaves every slot as it was and reports not found (a store failure aside).
C37_DeleteSlotOwnerOnly ==
    [][\A p \in Procs :
          (/\ Starts(p)
           /\ req'[p].kind = "delete_slot"
           /\ req'[p].slotId \in DOMAIN availability_slots
           /\ event_types[availability_slots[req'[p].slotId].event_type_id].user_id
                 # req'[p].userId)
          => /\ availability_slots' = availability_slots
             /\ resp'[p] \in {404, 500}]_vars

\* C38: in every state every booking ends its own stored duration_minutes after its
\* start; the stored duration is the one the create request read from the event
\* type and no later step changes it, so a reschedule keeps the booking's length
\* even when the event type's duration has been changed in between.
C38_EndIsStartPlusStored ==
    /\ [](\A i \in DOMAIN bookings :
            bookings[i].end_time = bookings[i].scheduled_at + bookings[i].duration_minutes)
    /\ [][/\ \A i \in DOMAIN bookings :
                /\ i \in DOMAIN bookings'
                /\ bookings'[i].duration_minutes = bookings[i].duration_minutes
          /\ \A i \in DOMAIN bookings' \ DOMAIN bookings :
                \E p \in Procs :
                    /\ pc[p] = "c_insert"
                    /\ bookings'[i].duration_minutes = local[p].eventType.duration_minutes]_vars

\* The duration of et1 is 45 by now; a booking stored with 30 minutes has since
\* been moved to another start and still ends 30 minutes after it.
C38_Witness ==
    \E p \in Procs :
        /\ pc[p] = "done" /\ req[p].kind = "reschedule" /\ resp[p] = 200
        /\ local[p].booking.scheduled_at # req[p].scheduled_at
        /\ event_types["et1"].duration_minutes = 45
        /\ LET b == bookings[req[p].bookingId]
           IN /\ b.event_type_id = "et1"
              /\ b.scheduled_at = req[p].scheduled_at
              /\ b.duration_minutes = DefaultDuration
              /\ b.end_time - b.scheduled_at = DefaultDuration
              /\ Confirmed(b)
====
